---- MODULE Spec2Model ----
(***************************************************************************)
(* Verification model of the RH-ISAC intel-integrations scripts.           *)
(*                                                                         *)
(*   SpecPage  the descending-cursor pagination of retrieve_iocs           *)
(*             (trustar/v1.3/generic/get_trustar_iocs.py) and of           *)
(*             retrieve_last24h_iocs                                       *)
(*             (trustar/v1.3/splunk/trustar_iocs_splunk_es_api.py).        *)
(*   SpecUrl   the URL -> Domain reclassifiers and the destination         *)
(*             encoders, each run on one URL-typed indicator.              *)
(*   SpecEnc   the same encoders run on short lists of indicators of       *)
(*             every type.                                                 *)
(***************************************************************************)
EXTENDS Integers, Sequences, FiniteSets, TLC

VARIABLES
    \* ---- pagination (retrieve_iocs / retrieve_last24h_iocs) ----
    variant,        \* which of the two fetch loops runs
    source,         \* last_seen of every indicator the source holds, newest first
    page_size,      \* page_size of search_indicators_page
    ordered,        \* the source lists each page newest first
    fullMeta,       \* get_indicators_metadata answers for every item it is given
    windowed,       \* the source lists no indicator seen after the to_time of the query
    pg_to,          \* the cursor
    all_metadata,   \* accumulated result (indicator ids)
    page,           \* items of the page fetched last
    inds,           \* metadata fetched for the page fetched last
    queries,        \* number of search_indicators_page calls issued
    dropped,        \* ghost: indicators left out of a full page that share its minimum last_seen
    pc,             \* "query": about to search, "done": the loop has ended;
                    \* encoders: "raw", "reclassified", "encoded"
    \* ---- reclassifiers and encoders ----
    feed,           \* where the indicators come from: "TruSTAR" or "MISP"
    iocs,           \* the indicators fetched (records with type and value)
    encoder,        \* the encoder that has run, "none" before
    cats,           \* result of categorize
    output,         \* result list of the other encoders
    ioc_blocks,     \* blocks built by upload_iocs
    skip_log,       \* messages printed for indicators that are skipped
    \* ---- delivery ----
    auth,           \* result of the authentication step: "none", "ok", "failed"
    block_i,        \* number of batches the delivery loop has gone through
    calls,          \* requests sent to the destination, in order
    body,           \* indicators of the request sent last
    errors,         \* resources of the 400 response handled last
    report,         \* outcome messages printed, in order
    submission,     \* status of the response submit_ioc returned last, -1 while unbound
    counts,         \* submitted_iocs and errored_iocs of the Microsoft upload_iocs
    \* ---- the run of a script ----
    script,         \* the script that runs
    conf,           \* its configuration file: found, sections, sections with all their keys
    args,           \* its command line flags
    stdout,         \* messages printed, in order: the text and what it is about
    requests,       \* number of requests to the source or the destination
    outfile,        \* the output file has been written
    exit_code       \* process exit code, -1 while the run goes on

pageVars == <<variant, source, page_size, ordered, fullMeta, windowed, pg_to, all_metadata,
              page, inds, queries, dropped>>

encVars == <<feed, iocs, encoder, cats, output, ioc_blocks, skip_log>>

sendVars == <<auth, block_i, calls, body, errors, report, submission, counts>>

runVars == <<script, conf, args, stdout, requests, outfile, exit_code>>

vars == <<pc, pageVars, encVars, sendVars, runVars>>

----------------------------------------------------------------------------
\* Bounds of the model

\* largest number of indicators the source holds
MaxN == 4
\* largest page size
MaxPageSize == 3
\* last_seen values range over 0..MaxTime
MaxTime == 5

\* query window [from_time, to_time], strictly inside 0..MaxTime
from_time == 1
to_time == MaxTime - 1
\* datetime(3000, 1, 1): larger than every last_seen
max_time == MaxTime + 1
\* cap on the number of queries of one run (a run within the source contract
\* needs at most MaxN + 1)
MaxQueries == MaxN + 2

\* the four Splunk ES lookups of categorize, all empty
EmptyCats == [email_intel |-> <<>>, file_intel |-> <<>>, http_intel |-> <<>>, ip_intel |-> <<>>]

\* no script started
RunIdle ==
    /\ script = "none"
    /\ conf = [found |-> TRUE, sections |-> {}, keys |-> {}]
    /\ args = [only_vals |-> FALSE, only_vt |-> FALSE]
    /\ stdout = <<>>
    /\ requests = 0
    /\ outfile = FALSE
    /\ exit_code = -1

\* nothing delivered
SendIdle ==
    /\ auth = "none"
    /\ block_i = 0
    /\ calls = <<>>
    /\ body = <<>>
    /\ errors = <<>>
    /\ report = <<>>
    /\ submission = -1
    /\ counts = [submitted_iocs |-> 0, errored_iocs |-> <<>>]

\* no indicators fetched, no encoder run
EncIdle ==
    /\ SendIdle
    /\ feed = "TruSTAR"
    /\ iocs = <<>>
    /\ encoder = "none"
    /\ cats = EmptyCats
    /\ output = <<>>
    /\ ioc_blocks = <<>>
    /\ skip_log = <<>>

----------------------------------------------------------------------------
\* Helpers

Range(s) == {s[i] : i \in 1..Len(s)}

SetMin(S) == CHOOSE x \in S : \A y \in S : x <= y

Min2(a, b) == IF a <= b THEN a ELSE b

CeilDiv(a, b) == (a + b - 1) \div b

Count(s, x) == Cardinality({i \in 1..Len(s) : s[i] = x})

\* non-increasing sequences of length n over 0..MaxTime
NonIncreasing(n) ==
    {s \in [1..n -> 0..MaxTime] : \A i \in 1..(n - 1) : s[i] >= s[i + 1]}

Perms(S) ==
    {f \in [1..Cardinality(S) -> S] : \A i, j \in 1..Cardinality(S) : f[i] = f[j] => i = j}

RECURSIVE Pick(_, _, _)
\* the subsequence of s at the indices K, from index i on
Pick(s, K, i) ==
    IF i > Len(s) THEN <<>>
    ELSE (IF i \in K THEN <<s[i]>> ELSE <<>>) \o Pick(s, K, i + 1)

----------------------------------------------------------------------------
\* The source: ts.search_indicators_page and ts.get_indicators_metadata

\* indicators whose last_seen lies in [from_time, to]; a source that is not
\* windowed overlooks to
InRange(to) ==
    {i \in 1..Len(source) : from_time <= source[i] /\ (windowed => source[i] <= to)}

\* the (at most page_size) newest of them; ties at the boundary are the source's choice
NewestSets(to) ==
    {S \in SUBSET InRange(to) :
        /\ Cardinality(S) = Min2(page_size, Cardinality(InRange(to)))
        /\ \A i \in S : \A j \in InRange(to) \ S : source[i] >= source[j]}

Listings(S) ==
    IF ordered
    THEN {f \in Perms(S) : \A k \in 1..(Cardinality(S) - 1) : source[f[k]] >= source[f[k + 1]]}
    ELSE Perms(S)

search_indicators_page(to) == UNION {Listings(S) : S \in NewestSets(to)}

get_indicators_metadata(items) ==
    IF fullMeta THEN {items}
    ELSE {Pick(items, K, 1) : K \in SUBSET (1..Len(items))}

\* indicators of InRange(to) that share the minimum last_seen of the page and are not in it
LeftOut(to, items) ==
    {j \in InRange(to) \ Range(items) :
        source[j] = SetMin({source[i] : i \in Range(items)})}

----------------------------------------------------------------------------
\* The fetch loop

\* page.items[0] read instead of page.items[-1]
EarliestOfPageFirstItem(items) == source[items[1]]

\* retrieve_iocs: last_seen of the last item of the page
EarliestOfPage(items) == source[items[Len(items)]]

\* the last metadata item read instead of the running minimum
EarliestOfMetadataLastItem(meta) ==
    IF meta = <<>> THEN max_time ELSE source[meta[Len(meta)]]

\* retrieve_last24h_iocs: running minimum over the metadata, starting at max_time
EarliestOfMetadata(meta) == SetMin({max_time} \cup {source[i] : i \in Range(meta)})

\* the cursor moved one millisecond too far
NextCursorDecrementTwo(items, meta) ==
    IF variant = "retrieve_iocs"
    THEN EarliestOfPage(items) - 2
    ELSE EarliestOfMetadata(meta) - 2

\* the cursor left on the earliest last_seen of the page
NextCursorNoDecrement(items, meta) ==
    IF variant = "retrieve_iocs" THEN EarliestOfPage(items) ELSE EarliestOfMetadata(meta)

\* `pg_to = earliest_lastseen - 1`
NextCursor(items, meta) ==
    IF variant = "retrieve_iocs"
    THEN EarliestOfPage(items) - 1
    ELSE EarliestOfMetadata(meta) - 1

InitPage ==
    /\ variant \in {"retrieve_iocs", "retrieve_last24h_iocs"}
    /\ source \in UNION {NonIncreasing(n) : n \in 0..MaxN}
    /\ page_size \in 1..MaxPageSize
    /\ ordered \in BOOLEAN
    /\ fullMeta = TRUE
    /\ windowed = TRUE
    /\ pg_to = to_time
    /\ all_metadata = <<>>
    /\ page = <<>>
    /\ inds = <<>>
    /\ queries = 0
    /\ dropped = {}
    /\ pc = "query"
    /\ EncIdle
    /\ RunIdle

\* `if not page.items: break`
FetchEmptyPage ==
    /\ pc = "query"
    /\ queries < MaxQueries
    /\ \E items \in search_indicators_page(pg_to) :
        /\ items = <<>>
        /\ page' = items
    /\ inds' = <<>>
    /\ queries' = queries + 1
    /\ pc' = "done"
    /\ UNCHANGED <<variant, source, page_size, ordered, fullMeta, windowed, pg_to, all_metadata, dropped>>
    /\ UNCHANGED <<encVars, sendVars, runVars>>

\* one iteration on a non-empty page; stop tells which exit the iteration takes
FetchPage(stop) ==
    /\ pc = "query"
    /\ queries < MaxQueries
    /\ \E items \in search_indicators_page(pg_to) :
        /\ items # <<>>
        /\ \E meta \in get_indicators_metadata(items) :
            /\ page' = items
            /\ inds' = meta
            /\ all_metadata' = all_metadata \o meta
            /\ pg_to' = NextCursor(items, meta)
            /\ dropped' = dropped \cup LeftOut(pg_to, items)
    /\ queries' = queries + 1
    /\ stop = (pg_to' < from_time)
    /\ pc' = IF stop THEN "done" ELSE "query"
    /\ UNCHANGED <<variant, source, page_size, ordered, fullMeta, windowed>>
    /\ UNCHANGED <<encVars, sendVars, runVars>>

\* the iteration ends at `if pg_to < from_time: break`
FetchLastPage == FetchPage(TRUE)

\* the iteration goes round the loop
FetchNextPage == FetchPage(FALSE)

NextPage == FetchEmptyPage \/ FetchLastPage \/ FetchNextPage

SpecPage == InitPage /\ [][NextPage]_vars

\* largest number of indicators a source off its contract holds
MaxOffN == 2

\* the loops with a source off its contract: retrieve_iocs with a source that
\* lists indicators seen after to_time, retrieve_last24h_iocs with metadata
\* for only some of the items of a page
InitOffContract ==
    /\ \/ variant = "retrieve_iocs" /\ windowed = FALSE /\ fullMeta = TRUE
       \/ variant = "retrieve_last24h_iocs" /\ windowed = TRUE /\ fullMeta = FALSE
    /\ source \in UNION {NonIncreasing(n) : n \in 0..MaxOffN}
    /\ page_size \in 1..MaxPageSize
    /\ ordered = TRUE
    /\ pg_to = to_time
    /\ all_metadata = <<>>
    /\ page = <<>>
    /\ inds = <<>>
    /\ queries = 0
    /\ dropped = {}
    /\ pc = "query"
    /\ EncIdle
    /\ RunIdle

SpecOffContract == InitOffContract /\ [][NextPage]_vars

----------------------------------------------------------------------------
\* Strings: sequences of one-character strings

\* characters of the generated values: a letter, a digit and the three
\* characters the reclassifiers look for
Alphabet == {"a", "1", ":", "/", "@"}

\* longest generated value of the one URL-typed indicator of SpecUrl
MaxLen == 6

Strings(n) == UNION {[1..k -> Alphabet] : k \in 0..n}

Letters == {"a", "c", "e", "h", "l", "m", "o", "p", "r", "s", "t", "u", "x"}
Digits == {"1"}

\* the values of the specification's examples
HttpExampleCom ==
    <<"h","t","t","p",":","/","/","e","x","a","m","p","l","e",".","c","o","m">>
HttpExampleComSlash == HttpExampleCom \o <<"/">>
HttpExampleComPath == HttpExampleCom \o <<"/","p","a","t","h">>
HttpUserAtExampleCom ==
    <<"h","t","t","p",":","/","/","u","s","e","r","@","e","x","a","m","p","l","e",".","c","o","m">>
ExampleCom == <<"e","x","a","m","p","l","e",".","c","o","m">>
Examples == {HttpExampleCom, HttpExampleComSlash, HttpExampleComPath, HttpUserAtExampleCom}

\* pat occurs in s at index i
OccursAt(s, pat, i) ==
    /\ i >= 1
    /\ i + Len(pat) - 1 <= Len(s)
    /\ \A k \in 1..Len(pat) : s[i + k - 1] = pat[k]

\* index of the first occurrence of pat in s, 0 when there is none
Find(s, pat) ==
    IF \E i \in 1..Len(s) : OccursAt(s, pat, i)
    THEN SetMin({i \in 1..Len(s) : OccursAt(s, pat, i)})
    ELSE 0

\* Python `pat in s`
Contains(s, pat) == Find(s, pat) # 0

\* Python s.split(pat, 1): two parts around the first pat, s alone when pat is not in s
Split1(s, pat) ==
    IF Contains(s, pat)
    THEN <<SubSeq(s, 1, Find(s, pat) - 1), SubSeq(s, Find(s, pat) + Len(pat), Len(s))>>
    ELSE <<s>>

SchemeSep == <<":", "/", "/">>
Slash == <<"/">>
At == <<"@">>
Colon == <<":">>
Star == <<"*">>

\* Python int(s) for the strings of the model: blanks around the number are
\* stripped, a sign may precede the decimal digits; ok is FALSE for the
\* ValueError
ParseInt(s) ==
    LET ds == <<"0", "1", "2", "3", "4", "5", "6", "7", "8", "9">>
        inked == {k \in 1..Len(s) : s[k] # " "}
        core == IF inked = {} THEN <<>>
                ELSE SubSeq(s, SetMin(inked), CHOOSE k \in inked : \A j \in inked : j <= k)
        signed == core # <<>> /\ core[1] \in {"-", "+"}
        digits == IF signed THEN Tail(core) ELSE core
        ok == digits # <<>> /\ \A k \in 1..Len(digits) : \E j \in 1..10 : ds[j] = digits[k]
        RECURSIVE val(_)
        val(d) == IF d = <<>> THEN 0
                  ELSE 10 * val(SubSeq(d, 1, Len(d) - 1))
                        + (CHOOSE j \in 1..10 : ds[j] = d[Len(d)]) - 1
    IN  [ok |-> ok,
         n |-> IF ~ok THEN 0 ELSE IF core[1] = "-" THEN 0 - val(digits) ELSE val(digits)]

----------------------------------------------------------------------------
\* Indicator types

TruStarTypes ==
    {"IP4", "IP6", "IP", "CIDR_BLOCK", "DOMAIN", "URL", "EMAIL_ADDRESS",
     "MD5", "SHA1", "SHA256", "SOFTWARE"}

MispTypes ==
    {"ip-dst", "IP6", "email-src", "md5", "sha1", "sha256", "domain", "url", "filename"}

\* str.lower() on the type names
Lower(t) ==
    CASE t = "IP4" -> "ip4" [] t = "IP6" -> "ip6" [] t = "IP" -> "ip"
      [] t = "CIDR_BLOCK" -> "cidr_block" [] t = "DOMAIN" -> "domain"
      [] t = "URL" -> "url" [] t = "EMAIL_ADDRESS" -> "email_address"
      [] t = "MD5" -> "md5" [] t = "SHA1" -> "sha1" [] t = "SHA256" -> "sha256"
      [] t = "SOFTWARE" -> "software"
      [] OTHER -> t

----------------------------------------------------------------------------
\* categorize (Splunk ES lookups).  The description and time fields, built
\* from the tags and lastSeen, are not carried.

categorize_fields == [threat_key |-> "RH-ISAC Vetted"]

\* the URL branch with the `if kind == 'domain'` test lost: the domain entry
\* carries the url key too
categorize_url_both_keys(value0) ==
    LET value == IF Contains(value0, SchemeSep) THEN Split1(value0, SchemeSep)[2] ELSE value0
        isUrl ==
            IF Contains(value, Slash)
            THEN \/ Split1(value, Slash)[2] # <<>>
                 \/ Contains(Split1(value, Slash)[1], At)
                 \/ Contains(Split1(value, Slash)[1], Colon)
            ELSE Contains(value, At) \/ Contains(value, Colon)
    IN  IF isUrl THEN categorize_fields @@ ("url" :> Star \o value)
        ELSE categorize_fields @@ ("domain" :> value) @@ ("url" :> Star \o value)

\* the URL branch with `value = value[:-1]` lost: the trailing '/' stays on the domain
categorize_url_keeps_slash(value0) ==
    LET value == IF Contains(value0, SchemeSep) THEN Split1(value0, SchemeSep)[2] ELSE value0
        isUrl ==
            IF Contains(value, Slash)
            THEN \/ Split1(value, Slash)[2] # <<>>
                 \/ Contains(Split1(value, Slash)[1], At)
                 \/ Contains(Split1(value, Slash)[1], Colon)
            ELSE Contains(value, At) \/ Contains(value, Colon)
    IN  IF isUrl THEN categorize_fields @@ ("url" :> Star \o value)
        ELSE categorize_fields @@ ("domain" :> value)

\* the URL branch of categorize: the http_intel entry for a URL-typed value
categorize_url(value0) ==
    LET value == IF Contains(value0, SchemeSep) THEN Split1(value0, SchemeSep)[2] ELSE value0
    IN  IF Contains(value, Slash)
        THEN LET netloc == Split1(value, Slash)[1]
                 remainder == Split1(value, Slash)[2]
             IN  IF remainder # <<>> \/ Contains(netloc, At) \/ Contains(netloc, Colon)
                 THEN categorize_fields @@ ("url" :> Star \o value)
                 ELSE categorize_fields @@ ("domain" :> SubSeq(value, 1, Len(value) - 1))
        ELSE IF Contains(value, At) \/ Contains(value, Colon)
             THEN categorize_fields @@ ("url" :> Star \o value)
             ELSE categorize_fields @@ ("domain" :> value)

\* one iteration of `for ind in inds`
categorize_one(c, ind) ==
    IF ind.type \in {"CIDR_BLOCK", "IP"}
    THEN [c EXCEPT !.ip_intel = Append(@, categorize_fields @@ ("ip" :> ind.value))]
    ELSE IF ind.type = "EMAIL_ADDRESS"
    THEN [c EXCEPT !.email_intel = Append(@, categorize_fields @@ ("src_user" :> ind.value))]
    ELSE IF ind.type \in {"MD5", "SHA1", "SHA256"}
    THEN [c EXCEPT !.file_intel = Append(@, categorize_fields @@ ("file_hash" :> ind.value))]
    ELSE IF ind.type = "SOFTWARE"
    THEN [c EXCEPT !.file_intel = Append(@, categorize_fields @@ ("file_name" :> ind.value))]
    ELSE IF ind.type = "URL"
    THEN [c EXCEPT !.http_intel = Append(@, categorize_url(ind.value))]
    ELSE c

RECURSIVE categorize_from(_, _, _)
categorize_from(list, i, c) ==
    IF i > Len(list) THEN c
    ELSE categorize_from(list, i + 1, categorize_one(c, list[i]))

categorize(list) == categorize_from(list, 1, EmptyCats)

----------------------------------------------------------------------------
\* build_field_values (Splunk kvstore), TruSTAR and MISP.  The updated and
\* tags fields are not carried.

\* the cidr field of an IP or CIDR_BLOCK indicator
cidr_of(value) ==
    IF /\ Len(Split1(value, Slash)) = 2
       /\ ParseInt(Split1(value, Slash)[2]).ok
       /\ ParseInt(Split1(value, Slash)[2]).n <= 32
    THEN value
    ELSE value \o <<"/", "3", "2">>

\* the URL branch with the '@' / ':' test of the no-path case lost
url_fields_no_path_always_domain(fields, value0) ==
    LET value == IF Contains(value0, SchemeSep) THEN Split1(value0, SchemeSep)[2] ELSE value0
    IN  IF Contains(value, Slash)
        THEN LET netloc == Split1(value, Slash)[1]
                 remainder == Split1(value, Slash)[2]
             IN  IF remainder # <<>> \/ Contains(netloc, At) \/ Contains(netloc, Colon)
                 THEN fields @@ ("wildcard" :> Star \o value)
                 ELSE [fields EXCEPT !.ioc_type = "domain",
                                     !.value = SubSeq(value, 1, Len(value) - 1)]
        ELSE [fields EXCEPT !.ioc_type = "domain", !.value = value]

\* the URL branch of the TruSTAR build_field_values
url_fields(fields, value0) ==
    LET value == IF Contains(value0, SchemeSep) THEN Split1(value0, SchemeSep)[2] ELSE value0
    IN  IF Contains(value, Slash)
        THEN LET netloc == Split1(value, Slash)[1]
                 remainder == Split1(value, Slash)[2]
             IN  IF remainder # <<>> \/ Contains(netloc, At) \/ Contains(netloc, Colon)
                 THEN fields @@ ("wildcard" :> Star \o value)
                 ELSE [fields EXCEPT !.ioc_type = "domain",
                                     !.value = SubSeq(value, 1, Len(value) - 1)]
        ELSE IF ~Contains(value, At) /\ ~Contains(value, Colon)
             THEN [fields EXCEPT !.ioc_type = "domain", !.value = value]
             ELSE fields

\* one iteration of the TruSTAR build_field_values
build_fields(ind) ==
    LET fields == [value |-> ind.value, ioc_type |-> Lower(ind.type),
                   source |-> "RH-ISAC Vetted"]
    IN  IF ind.type \in {"CIDR_BLOCK", "IP"} THEN fields @@ ("cidr" :> cidr_of(ind.value))
        ELSE IF ind.type = "URL" THEN url_fields(fields, ind.value)
        ELSE fields

build_field_values(list) == [i \in 1..Len(list) |-> build_fields(list[i])]

\* the URL branch of the MISP build_field_values: it has no no-path case
url_fields_misp(fields, value0) ==
    LET value == IF Contains(value0, SchemeSep) THEN Split1(value0, SchemeSep)[2] ELSE value0
    IN  IF Contains(value, Slash)
        THEN LET netloc == Split1(value, Slash)[1]
                 remainder == Split1(value, Slash)[2]
             IN  IF remainder # <<>> \/ Contains(netloc, At) \/ Contains(netloc, Colon)
                 THEN fields @@ ("wildcard" :> Star \o value)
                 ELSE [fields EXCEPT !.ioc_type = "domain",
                                     !.value = SubSeq(value, 1, Len(value) - 1)]
        ELSE fields

MispKnownTypes == {"ip-dst", "email-src", "md5", "sha256", "sha1", "domain", "url"}

\* one iteration of the MISP build_field_values on the result r so far
build_fields_misp(r, ind) ==
    LET fields0 == [value |-> ind.value, ioc_type |-> Lower(ind.type),
                    source |-> "RH-ISAC Vetted"]
        fields == IF ind.type = "url" THEN url_fields_misp(fields0, ind.value) ELSE fields0
    IN  IF ind.type \notin MispKnownTypes
        THEN [r EXCEPT !.log = Append(@, [msg |-> "Error parsing IOC type", type |-> ind.type])]
        ELSE [r EXCEPT !.out = Append(@, fields)]

RECURSIVE build_field_values_misp_from(_, _, _)
build_field_values_misp_from(list, i, r) ==
    IF i > Len(list) THEN r
    ELSE build_field_values_misp_from(list, i + 1, build_fields_misp(r, list[i]))

build_field_values_misp(list) ==
    build_field_values_misp_from(list, 1, [out |-> <<>>, log |-> <<>>])

----------------------------------------------------------------------------
\* retrieve_last24h_obls (CrowdStrike, Microsoft): the regex reclassifier

WordChars == Letters \cup Digits \cup {"_"}
HostChars == Letters \cup Digits \cup {"-", "."}

\* re.match(REXP, v) with REXP = \w{2,}:\/\/(?=.*[A-Za-z])[A-Za-z0-9-\.]+\/?$
RexpMatch(v) ==
    \E n \in 2..Len(v) :
        /\ \A k \in 1..n : v[k] \in WordChars
        /\ OccursAt(v, SchemeSep, n + 1)
        /\ LET rest == SubSeq(v, n + 4, Len(v))
           IN  /\ \E k \in 1..Len(rest) : rest[k] \in Letters
               /\ \E m \in 1..Len(rest) :
                    /\ \A k \in 1..m : rest[k] \in HostChars
                    /\ \/ m = Len(rest)
                       \/ m + 1 = Len(rest) /\ rest[m + 1] = "/"

\* the body of `for obl in page.data`
reclassify(obl) ==
    IF obl.type = "URL"
    THEN IF ~Contains(obl.value, Slash)
         THEN [obl EXCEPT !.type = "DOMAIN"]
         ELSE IF RexpMatch(obl.value)
              THEN [obl EXCEPT !.value = Split1(Split1(obl.value, SchemeSep)[2], Slash)[1],
                               !.type = "DOMAIN"]
              ELSE obl
    ELSE obl

retrieve_last24h_obls(data) == [i \in 1..Len(data) |-> reclassify(data[i])]

----------------------------------------------------------------------------
\* upload_iocs (CrowdStrike, TruSTAR and MISP): the block builder.  The
\* description, expiration, applied_globally and platforms fields are not carried.

TYPE_MAP ==
    [t \in {"DOMAIN", "IP4", "IP6", "MD5", "SHA256"} |->
        CASE t = "DOMAIN" -> "domain" [] t = "IP4" -> "ipv4" [] t = "IP6" -> "ipv6"
          [] t = "MD5" -> "md5" [] t = "SHA256" -> "sha256"]

\* misp_iocs_crowdstrike_falcon.py
TYPE_MAP_MISP ==
    [t \in {"domain", "ip-dst", "IP6", "md5", "sha256"} |->
        CASE t = "domain" -> "domain" [] t = "ip-dst" -> "ipv4" [] t = "IP6" -> "ipv6"
          [] t = "md5" -> "md5" [] t = "sha256" -> "sha256"]

\* the TYPE_MAP of the script that runs
FalconTypeMap == IF feed = "MISP" THEN TYPE_MAP_MISP ELSE TYPE_MAP

\* "API accepts up to 200 IOCs per request"
BlockSize == 200

ioc_dict_of(ioc) ==
    [source |-> "RH-ISAC Vetted", action |-> "detect", type |-> FalconTypeMap[ioc.type],
     value |-> ioc.value, severity |-> "HIGH"]

\* the block closed when it holds more than 200 entries
block_step_closes_late(b, ioc) ==
    IF ioc.type \notin DOMAIN FalconTypeMap
    THEN [b EXCEPT !.log = Append(@, [msg |-> "No Crowdstrike IOC type", type |-> ioc.type])]
    ELSE LET ioc_block == Append(b.ioc_block, ioc_dict_of(ioc))
         IN  IF Len(ioc_block) > BlockSize
             THEN [b EXCEPT !.ioc_blocks = Append(@, ioc_block), !.ioc_block = <<>>]
             ELSE [b EXCEPT !.ioc_block = ioc_block]

\* one iteration of `for ioc in iocs`; b holds ioc_blocks, ioc_block and the messages
block_step(b, ioc) ==
    IF ioc.type \notin DOMAIN FalconTypeMap
    THEN [b EXCEPT !.log = Append(@, [msg |-> "No Crowdstrike IOC type", type |-> ioc.type])]
    ELSE LET ioc_block == Append(b.ioc_block, ioc_dict_of(ioc))
         IN  IF Len(ioc_block) >= BlockSize
             THEN [b EXCEPT !.ioc_blocks = Append(@, ioc_block), !.ioc_block = <<>>]
             ELSE [b EXCEPT !.ioc_block = ioc_block]

RECURSIVE build_blocks_from(_, _, _, _)
\* the iterations of `for ioc in iocs` on list[lo..hi], in order (the range is
\* halved to keep the evaluation shallow on long lists)
build_blocks_from(list, lo, hi, b) ==
    IF lo > hi THEN b
    ELSE IF lo = hi THEN block_step(b, list[lo])
    ELSE LET mid == (lo + hi) \div 2
             left == build_blocks_from(list, lo, mid, b)
         IN  IF Len(left.ioc_blocks) >= 0      \* the left half is evaluated first
             THEN build_blocks_from(list, mid + 1, hi, left)
             ELSE left

\* the loop, then `if ioc_block: ioc_blocks.append(ioc_block)`
build_blocks(list) ==
    LET b == build_blocks_from(list, 1, Len(list),
                               [ioc_blocks |-> <<>>, ioc_block |-> <<>>, log |-> <<>>])
    IN  IF b.ioc_block # <<>>
        THEN [b EXCEPT !.ioc_blocks = Append(@, b.ioc_block), !.ioc_block = <<>>]
        ELSE b

----------------------------------------------------------------------------
\* upload_iocs_to_sentinel (SentinelOne): the data list.  The externalId, name
\* and validUntil fields are not carried.

SENTINEL_TYPE_MAP ==
    [t \in {"domain", "ip-dst", "IP6", "md5", "sha256", "sha1", "url"} |->
        CASE t = "domain" -> "DNS" [] t = "ip-dst" -> "IPV4" [] t = "IP6" -> "IPV6"
          [] t = "md5" -> "MD5" [] t = "sha256" -> "SHA256" [] t = "sha1" -> "SHA1"
          [] t = "url" -> "URL"]

RECURSIVE sentinel_data_from(_, _, _)
sentinel_data_from(list, i, data) ==
    IF i > Len(list) THEN data
    ELSE IF list[i].type \notin DOMAIN SENTINEL_TYPE_MAP
    THEN sentinel_data_from(list, i + 1, data)
    ELSE sentinel_data_from(list, i + 1,
            Append(data, [source |-> "RHISAC MISP - Vetted",
                          type |-> SENTINEL_TYPE_MAP[list[i].type],
                          value |-> list[i].value, method |-> "EQUALS"]))

sentinel_data(list) == sentinel_data_from(list, 1, <<>>)

----------------------------------------------------------------------------
\* The encoder runs

\* largest number of indicators of a list of SpecEnc
MaxInds == 3

\* URL values of the lists of SpecEnc
UrlSamples ==
    {<<"a">>, <<"a", "/">>, <<"a", "/", "a">>, <<"a", "@", "a">>,
     HttpExampleCom, HttpExampleComPath}

UrlType(f) == IF f = "MISP" THEN "url" ELSE "URL"

TypesOf(f) == IF f = "MISP" THEN MispTypes ELSE TruStarTypes

\* the indicators a list of SpecEnc is made of
Indicators(f) ==
    {[type |-> UrlType(f), value |-> v] : v \in UrlSamples}
        \cup {[type |-> t, value |-> <<"a">>] : t \in TypesOf(f) \ {UrlType(f)}}

PageIdle ==
    /\ variant = "retrieve_iocs"
    /\ source = <<>>
    /\ page_size = 1
    /\ ordered = TRUE
    /\ fullMeta = TRUE
    /\ windowed = TRUE
    /\ pg_to = to_time
    /\ all_metadata = <<>>
    /\ page = <<>>
    /\ inds = <<>>
    /\ queries = 0
    /\ dropped = {}

EncStart ==
    /\ pc = "raw"
    /\ encoder = "none"
    /\ cats = EmptyCats
    /\ output = <<>>
    /\ ioc_blocks = <<>>
    /\ skip_log = <<>>
    /\ PageIdle
    /\ SendIdle
    /\ RunIdle

\* one URL-typed indicator
InitUrl ==
    /\ feed \in {"TruSTAR", "MISP"}
    /\ \E v \in Strings(MaxLen) \cup Examples : iocs = <<[type |-> UrlType(feed), value |-> v]>>
    /\ EncStart

\* a list of indicators of every type
InitEnc ==
    /\ feed \in {"TruSTAR", "MISP"}
    /\ iocs \in UNION {[1..n -> Indicators(feed)] : n \in 0..MaxInds}
    /\ EncStart

\* trustar2_iocs_splunk_es_api.py: ioc_cats = categorize(raw_iocs)
Categorize ==
    /\ pc = "raw" /\ feed = "TruSTAR"
    /\ cats' = categorize(iocs)
    /\ encoder' = "categorize"
    /\ pc' = "encoded"
    /\ UNCHANGED <<feed, iocs, output, ioc_blocks, skip_log, pageVars, runVars, sendVars>>

\* trustar2_iocs_to_splunk.py: iocs = build_field_values(raw_iocs)
BuildFieldValues ==
    /\ pc = "raw" /\ feed = "TruSTAR"
    /\ output' = build_field_values(iocs)
    /\ encoder' = "build_field_values"
    /\ pc' = "encoded"
    /\ UNCHANGED <<feed, iocs, cats, ioc_blocks, skip_log, pageVars, runVars, sendVars>>

\* longest text after the address of an IP or CIDR_BLOCK indicator
MaxCidrLen == 3

\* one indicator of type IP or CIDR_BLOCK: an address followed by every text
\* of separators, signs, blanks and digits
InitCidr ==
    /\ feed = "TruSTAR"
    /\ \E t \in {"IP", "CIDR_BLOCK"},
          v \in UNION {[1..k -> {"/", "-", " ", "0", "3", "9"}] : k \in 0..MaxCidrLen} :
            iocs = <<[type |-> t, value |-> <<"a">> \o v]>>
    /\ EncStart

SpecCidr == InitCidr /\ [][BuildFieldValues]_vars

\* misp_iocs_to_splunk.py: iocs = build_field_values(filtered_iocs)
BuildFieldValuesMisp ==
    /\ pc = "raw" /\ feed = "MISP"
    /\ output' = build_field_values_misp(iocs).out
    /\ skip_log' = build_field_values_misp(iocs).log
    /\ encoder' = "build_field_values_misp"
    /\ pc' = "encoded"
    /\ UNCHANGED <<feed, iocs, cats, ioc_blocks, pageVars, runVars, sendVars>>

\* trustar_iocs_crowdstrike_falcon.py: obls = retrieve_last24h_obls(ts_credentials)
RetrieveLast24hObls ==
    /\ pc = "raw" /\ feed = "TruSTAR"
    /\ output' = retrieve_last24h_obls(iocs)
    /\ encoder' = "retrieve_last24h_obls"
    /\ pc' = "reclassified"
    /\ UNCHANGED <<feed, iocs, cats, ioc_blocks, skip_log, pageVars, runVars, sendVars>>

\* trustar_iocs_crowdstrike_falcon.py: upload_iocs(obls, credentials), up to the blocks
UploadIocs ==
    /\ pc = "reclassified"
    /\ ioc_blocks' = build_blocks(output).ioc_blocks
    /\ skip_log' = build_blocks(output).log
    /\ encoder' = "upload_iocs"
    /\ pc' = "encoded"
    /\ UNCHANGED <<feed, iocs, cats, output, pageVars, runVars, sendVars>>

\* misp_iocs_sentinelone_ai_seim.py: upload_iocs_to_sentinel(iocs), up to the data list
UploadIocsToSentinel ==
    /\ pc = "raw" /\ feed = "MISP"
    /\ output' = sentinel_data(iocs)
    /\ encoder' = "upload_iocs_to_sentinel"
    /\ pc' = "encoded"
    /\ UNCHANGED <<feed, iocs, cats, ioc_blocks, skip_log, pageVars, runVars, sendVars>>

NextEnc ==
    \/ Categorize
    \/ BuildFieldValues
    \/ BuildFieldValuesMisp
    \/ RetrieveLast24hObls
    \/ UploadIocs
    \/ UploadIocsToSentinel

SpecUrl == InitUrl /\ [][NextEnc]_vars

SpecEnc == InitEnc /\ [][NextEnc]_vars

----------------------------------------------------------------------------
\* upload_iocs (CrowdStrike) on long lists

\* a long list holds up to 2 * BlockSize + MaxExtra indicators
MaxExtra == 1
\* every p-th indicator of a long list has a type outside TYPE_MAP, p up to MaxSkip
MaxSkip == 3

DigitChars == <<"0", "1", "2", "3", "4", "5", "6", "7", "8", "9">>

RECURSIVE Decimal(_)
\* str(n)
Decimal(n) ==
    IF n < 10 THEN <<DigitChars[n + 1]>>
    ELSE Decimal(n \div 10) \o <<DigitChars[(n % 10) + 1]>>

MappedType(f) == IF f = "MISP" THEN "md5" ELSE "MD5"

UnmappedType(f) == IF f = "MISP" THEN "email-src" ELSE "EMAIL_ADDRESS"

\* n indicators with pairwise distinct values; every p-th has an unmapped type
LongList(f, n, p) ==
    [i \in 1..n |->
        [type |-> IF p > 0 /\ i % p = 0 THEN UnmappedType(f) ELSE MappedType(f),
         value |-> Decimal(i)]]

\* the indicators as retrieve_last24h_obls / filter_results hand them to upload_iocs
InitBlocks ==
    /\ feed \in {"TruSTAR", "MISP"}
    /\ \E n \in 0..(2 * BlockSize + MaxExtra), p \in 0..MaxSkip : iocs = LongList(feed, n, p)
    /\ output = iocs
    /\ pc = "reclassified"
    /\ encoder = "none"
    /\ cats = EmptyCats
    /\ ioc_blocks = <<>>
    /\ skip_log = <<>>
    /\ PageIdle
    /\ SendIdle
    /\ RunIdle

SpecBlocks == InitBlocks /\ [][UploadIocs]_vars

----------------------------------------------------------------------------
\* upload_iocs (CrowdStrike): the submission loop

\* status codes of the responses of the model
Statuses == {200, 201, 400, 429, 500}

\* statuses upload_iocs takes for a success
SuccessCodes == IF feed = "MISP" THEN {200, 201} ELSE {200}

\* 'Warning: Duplicate type'
DuplicateWarning ==
    <<"W","a","r","n","i","n","g",":"," ","D","u","p","l","i","c","a","t","e"," ","t","y","p","e">>

\* messages of the resources of a 400 response
Messages == {DuplicateWarning \o <<":", " ", "m", "d", "5">>, <<"I", "n", "v", "a", "l", "i", "d">>}

\* most resources in one 400 response
MaxErrors == 1

\* the resources a 400 response may hold
ErrorLists ==
    UNION {[1..n -> {[message |-> m, value |-> v] :
                        m \in Messages, v \in {<<"a">>, <<"1">>}}] : n \in 0..MaxErrors}

\* list.remove(x): the list without its first element equal to x
RemoveFirst(s, x) ==
    LET j == SetMin({k \in 1..Len(s) : s[k] = x})
    IN  SubSeq(s, 1, j - 1) \o SubSeq(s, j + 1, Len(s))

\* the k-th step of `for ioc in block: if ioc.get('value') == duplicate_ioc_value:
\* block.remove(ioc)`: the iterator reads position k of the list as it is by
\* then, and has ended when k is past its end
remove_duplicate_step(block, value, k) ==
    IF k > Len(block) THEN block
    ELSE IF block[k].value = value THEN RemoveFirst(block, block[k])
    ELSE block

RECURSIVE remove_duplicate_from(_, _, _, _)
\* the steps lo..hi of the iteration, in order (the range is halved to keep
\* the evaluation shallow on long blocks)
remove_duplicate_from(block, value, lo, hi) ==
    IF lo > hi THEN block
    ELSE IF lo = hi THEN remove_duplicate_step(block, value, lo)
    ELSE LET mid == (lo + hi) \div 2
             left == remove_duplicate_from(block, value, lo, mid)
         IN  IF Len(left) >= 0      \* the left half is evaluated first
             THEN remove_duplicate_from(left, value, mid + 1, hi)
             ELSE left

RECURSIVE process_errors(_, _)
\* `for error in errors`
process_errors(block, errs) ==
    IF errs = <<>> THEN block
    ELSE IF Contains(Head(errs).message, DuplicateWarning)
    THEN process_errors(remove_duplicate_from(block, Head(errs).value, 1, Len(block)),
                        Tail(errs))
    ELSE process_errors(block, Tail(errs))

\* a 429 resubmitted as well
NeedsResubmitOn429(status) == status \in {400, 429}

\* `if int(response.get('status_code')) == 400`
NeedsResubmit(status) == status = 400

\* the message printed for a block that was not resubmitted
outcome_of(status) ==
    IF status = 429 THEN "Error 429: Too many requests."
    ELSE IF status \in SuccessCodes THEN "Block submitted successfully."
    ELSE "Unknown response code:"

\* the message printed after the resubmission: the test reads response, not
\* new_response
outcome_of_resubmission(response, new_response) ==
    IF response \in SuccessCodes THEN "Block submitted successfully." ELSE "Unknown error:"

\* the loop given up after a block that failed
LoopStopsOnFailure(i, status) == i < Len(ioc_blocks) /\ status \in SuccessCodes

\* `for i, block in enumerate(ioc_blocks)`: i blocks done, more to come
LoopGoesOn(i, status) == i < Len(ioc_blocks)

\* one iteration of the submission loop; resubmit tells which branch it takes
SubmitBlockWith(resubmit) ==
    /\ pc = "encoded" /\ encoder = "upload_iocs"
    /\ block_i < Len(ioc_blocks)
    /\ \E status \in Statuses :
        /\ resubmit = NeedsResubmit(status)
        /\ LET block == ioc_blocks[block_i + 1]
               first == [request |-> "indicator_create", block |-> block_i,
                         size |-> Len(block), status |-> status]
           IN  IF resubmit
               THEN \E errs \in ErrorLists, new_status \in Statuses :
                       LET left == process_errors(block, errs)
                       IN  /\ errors' = errs
                           /\ ioc_blocks' = [ioc_blocks EXCEPT ![block_i + 1] = left]
                           /\ body' = left
                           /\ calls' = calls \o <<first,
                                   [request |-> "indicator_create", block |-> block_i,
                                    size |-> Len(left), status |-> new_status]>>
                           /\ report' = Append(report,
                                   [block |-> block_i,
                                    msg |-> outcome_of_resubmission(status, new_status)])
                           /\ pc' = IF LoopGoesOn(block_i + 1, new_status)
                                    THEN "encoded" ELSE "done"
               ELSE /\ errors' = <<>>
                    /\ body' = block
                    /\ calls' = Append(calls, first)
                    /\ report' = Append(report, [block |-> block_i, msg |-> outcome_of(status)])
                    /\ pc' = IF LoopGoesOn(block_i + 1, status) THEN "encoded" ELSE "done"
                    /\ UNCHANGED ioc_blocks
    /\ block_i' = block_i + 1
    /\ UNCHANGED <<feed, iocs, encoder, cats, output, skip_log, auth, submission, counts,
                   pageVars, runVars>>

\* a block answered with another status than 400
SubmitBlock == SubmitBlockWith(FALSE)

\* a block answered with 400, cleaned of the duplicates and submitted again
ResubmitBlock == SubmitBlockWith(TRUE)

----------------------------------------------------------------------------
\* The delivery runs

\* longest short list of a delivery run
MaxSend == 3

\* the indicators a short list of a delivery run is made of
SendIndicators(f) ==
    {[type |-> MappedType(f), value |-> <<"a">>],
     [type |-> MappedType(f), value |-> <<"1">>],
     [type |-> UrlType(f), value |-> <<"a">>],
     [type |-> UnmappedType(f), value |-> <<"a">>],
     [type |-> "IP6", value |-> <<"a">>]}

\* a script starts on a short list of indicators fetched from the feed
InitSendShort ==
    /\ feed \in {"TruSTAR", "MISP"}
    /\ iocs \in UNION {[1..n -> SendIndicators(feed)] : n \in 0..MaxSend}
    /\ EncStart

\* upload_iocs (CrowdStrike) has built the blocks of a list of BlockSize + 1
\* indicators and is about to submit them
InitSendLong ==
    /\ feed \in {"TruSTAR", "MISP"}
    /\ iocs = LongList(feed, BlockSize + 1, 0)
    /\ output = iocs
    /\ pc = "encoded"
    /\ encoder = "upload_iocs"
    /\ cats = EmptyCats
    /\ ioc_blocks = build_blocks(iocs).ioc_blocks
    /\ skip_log = build_blocks(iocs).log
    /\ PageIdle
    /\ SendIdle
    /\ RunIdle

InitSend == InitSendShort \/ InitSendLong

\* misp_iocs_crowdstrike_falcon.py, misp_iocs_to_microsoft.py:
\* filtered = filter_results(iocs); value and type are kept as they are
FilterResults ==
    /\ pc = "raw" /\ feed = "MISP"
    /\ output' = iocs
    /\ encoder' = "filter_results"
    /\ pc' = "reclassified"
    /\ UNCHANGED <<feed, iocs, cats, ioc_blocks, skip_log, pageVars, runVars, sendVars>>

\* the lookups in the order of the dict cats
Lookups == <<"email_intel", "file_intel", "http_intel", "ip_intel">>

\* number of saved searches dispatch_lookup_gen_searches goes through
NumSearches == 10

\* a request of the model: what is asked, the batch it belongs to, how many
\* items it carries and the status of the response (0: the request raised)
Call(request, batch, size, status) ==
    [request |-> request, block |-> batch, size |-> size, status |-> status]

\* trustar2_iocs_splunk_es_api.py main: have_splunk_access = can_access_splunk()
CanAccessSplunk ==
    /\ pc = "encoded" /\ encoder = "categorize"
    /\ iocs # <<>>
    /\ auth = "none"
    /\ \E test_resp \in {0, 200, 401, 500} :
        /\ calls' = Append(calls, Call("current-context", 0, 0, test_resp))
        /\ auth' = IF test_resp = 200 THEN "ok" ELSE "failed"
    /\ report' = IF auth' = "ok" THEN report
                 ELSE Append(report, [block |-> 0, msg |-> "Unable to authenticate to Splunk"])
    /\ pc' = IF auth' = "ok" THEN "authenticated" ELSE "done"
    /\ UNCHANGED <<block_i, body, errors, submission, counts, encVars, pageVars, runVars>>

\* one iteration of `for lookup_name, iocs in ioc_cats.items()`
PostIocsToSplunk ==
    /\ pc = "authenticated" /\ encoder = "categorize"
    /\ block_i < Len(Lookups)
    /\ LET lookup_name == Lookups[block_i + 1]
       IN  IF cats[lookup_name] = <<>>
           THEN /\ report' = Append(report, [block |-> block_i, msg |-> "No IOCs for lookup. Skipping."])
                /\ UNCHANGED <<calls, body>>
           ELSE \E status \in {0, 201, 500} :
                /\ calls' = Append(calls, Call(lookup_name, block_i, Len(cats[lookup_name]), status))
                /\ body' = cats[lookup_name]
                /\ report' = Append(report,
                        [block |-> block_i,
                         msg |-> IF status = 201 THEN "Successfully uploaded IOCs to lookup"
                                 ELSE "Failed to upload IOCs to lookup"])
    /\ block_i' = block_i + 1
    /\ UNCHANGED <<pc, auth, errors, submission, counts, encVars, pageVars, runVars>>

\* result = dispatch_lookup_gen_searches(): n dispatches are posted; fewer than
\* NumSearches when one of them raised
DispatchLookupGenSearches ==
    /\ pc = "authenticated" /\ encoder = "categorize"
    /\ block_i = Len(Lookups)
    /\ \E n \in 1..NumSearches, result \in BOOLEAN :
        /\ result => n = NumSearches
        /\ calls' = Append(calls, Call("dispatch", block_i, n, IF result THEN 201 ELSE 0))
        /\ report' = Append(report,
                [block |-> block_i,
                 msg |-> IF result THEN "All Lookup Gen saved searches dispatched successfully"
                         ELSE "Some Lookup Gen saved searches were not dispatched successfully"])
    /\ pc' = "done"
    /\ UNCHANGED <<auth, block_i, body, errors, submission, counts, encVars, pageVars, runVars>>

\* trustar2_iocs_to_splunk.py, misp_iocs_to_splunk.py: auth_result = auth_to_splunk();
\* status 200 stands for a response that carries a sessionKey
AuthToSplunk ==
    /\ pc = "encoded" /\ encoder \in {"build_field_values", "build_field_values_misp"}
    /\ iocs # <<>>
    /\ auth = "none"
    /\ \E auth_resp \in {0, 200, 401, 500} :
        /\ calls' = Append(calls, Call("login", 0, 0, auth_resp))
        /\ auth' = IF auth_resp = 200 THEN "ok" ELSE "failed"
    /\ report' = IF auth' = "ok" THEN report
                 ELSE Append(report, [block |-> 0, msg |-> "Unable to authenticate to Splunk"])
    /\ pc' = IF auth' = "ok" THEN "authenticated" ELSE "done"
    /\ UNCHANGED <<block_i, body, errors, submission, counts, encVars, pageVars, runVars>>

\* check_splunk_kvstore: check is the status of the lookup of the collection
\* (0: the request raised), missing whether its content holds 'Could not find
\* object id', create the status of the request that creates the collection
check_splunk_kvstore(check, missing, create) ==
    IF check = 0 THEN FALSE
    ELSE IF check = 404 /\ missing THEN create = 201
    ELSE TRUE

\* result = post_iocs_to_splunk(iocs): check_splunk_kvstore, then batch_save
PostIocsToKvstore ==
    /\ pc = "authenticated"
    /\ encoder \in {"build_field_values", "build_field_values_misp"}
    /\ \E check \in {0, 200, 401, 404, 500}, missing \in BOOLEAN,
          create \in {0, 201, 500}, save \in {0, 200, 500} :
        LET configured == check_splunk_kvstore(check, missing, create)
            result == configured /\ save = 200
        IN  /\ calls' = calls \o <<Call("collections/config", 0, 0, check)>>
                    \o (IF check = 404 /\ missing THEN <<Call("create collection", 0, 0, create)>> ELSE <<>>)
                    \o (IF configured THEN <<Call("batch_save", 0, Len(output), save)>> ELSE <<>>)
            /\ body' = IF configured THEN output ELSE body
            /\ report' = Append(report,
                    [block |-> 0,
                     msg |-> IF result THEN "Successfully uploaded IOCs to Splunk"
                             ELSE "Failed to upload IOCs to Splunk"])
    /\ pc' = "done"
    /\ UNCHANGED <<auth, block_i, errors, submission, counts, encVars, pageVars, runVars>>

\* the types upload_iocs (Microsoft) has a branch for
MicrosoftTypes ==
    IF feed = "MISP"
    THEN {"domain", "md5", "sha256", "sha1", "ip-dst", "url", "email-src"}
    ELSE {"DOMAIN", "MD5", "SHA256", "SHA1", "IP4", "URL", "EMAIL_ADDRESS"}

\* upload_iocs (Microsoft): headers = get_token(credentials).  urlopen raises
\* on an error status; an empty access_token is reported and the headers are
\* returned all the same
GetToken ==
    /\ pc = "reclassified"
    /\ output # <<>>
    /\ \E token \in {"raised", "empty", "token"} :
        /\ calls' = Append(calls, Call("oauth2/v2.0/token", 0, 0, IF token = "raised" THEN 401 ELSE 200))
        /\ auth' = IF token = "token" THEN "ok" ELSE "failed"
        /\ report' = IF token = "empty"
                     THEN Append(report, [block |-> 0, msg |-> "Unable to obtain AAD Token"])
                     ELSE report
        /\ pc' = IF token = "raised" THEN "crashed" ELSE "encoded"
    /\ encoder' = "upload_iocs_microsoft"
    /\ UNCHANGED <<block_i, body, errors, submission, counts, feed, iocs, cats, output,
                   ioc_blocks, skip_log, pageVars, runVars>>

\* "Handle various return conditions": a Response is false when its status is
\* 400 or more
tally(c, ioc, status) ==
    IF status >= 400 THEN [c EXCEPT !.errored_iocs = Append(@, ioc)]
    ELSE IF 201 # status THEN [c EXCEPT !.errored_iocs = Append(@, ioc)]
    ELSE [c EXCEPT !.submitted_iocs = @ + 1]

\* one iteration of `for ioc in iocs` of upload_iocs (Microsoft).  An IOC of
\* unrecognised type is appended to errored_iocs and submission keeps what the
\* iteration before left in it; read while unbound, it ends the run.
SubmitIoc ==
    /\ pc = "encoded" /\ encoder = "upload_iocs_microsoft"
    /\ block_i < Len(output)
    /\ LET ioc == output[block_i + 1]
       IN  IF ioc.type \in MicrosoftTypes
           THEN \E status \in {200, 201, 400} :
                /\ calls' = Append(calls, Call("tiIndicators", block_i, 1, status))
                /\ body' = <<ioc>>
                /\ submission' = status
                /\ counts' = tally(counts, ioc, status)
                /\ pc' = IF block_i + 1 < Len(output) THEN "encoded" ELSE "done"
           ELSE /\ UNCHANGED <<calls, body, submission>>
                /\ IF submission = -1
                   THEN /\ counts' = [counts EXCEPT !.errored_iocs = Append(@, ioc)]
                        /\ pc' = "crashed"
                   ELSE /\ counts' = tally([counts EXCEPT !.errored_iocs = Append(@, ioc)],
                                           ioc, submission)
                        /\ pc' = IF block_i + 1 < Len(output) THEN "encoded" ELSE "done"
    /\ block_i' = block_i + 1
    /\ UNCHANGED <<auth, errors, report, encVars, pageVars, runVars>>

NextSend ==
    \/ Categorize
    \/ BuildFieldValues
    \/ BuildFieldValuesMisp
    \/ RetrieveLast24hObls
    \/ FilterResults
    \/ UploadIocs
    \/ SubmitBlock
    \/ ResubmitBlock
    \/ CanAccessSplunk
    \/ PostIocsToSplunk
    \/ DispatchLookupGenSearches
    \/ AuthToSplunk
    \/ PostIocsToKvstore
    \/ GetToken
    \/ SubmitIoc

SpecSend == InitSend /\ [][NextSend]_vars

----------------------------------------------------------------------------
\* Tags: what the field mappers hand over and what the encoders and the CSV
\* writers make of it.  A tags value is a list of {name} objects, a list of
\* strings or a string: rep tells which, names holds the names of a list, str
\* the characters of a string.

\* most tags on one indicator
MaxTags == 2
\* most indicators in a list
MaxTagInds == 2

\* "rhisac: vetted"
VETTED_TAG == <<"r","h","i","s","a","c",":"," ","v","e","t","t","e","d">>

TagList(rep, names) == [rep |-> rep, names |-> names, str |-> <<>>]

TagString(str) == [rep |-> "string", names |-> <<>>, str |-> str]

RECURSIVE Join(_, _)
\* sep.join(list)
Join(sep, list) ==
    IF list = <<>> THEN <<>>
    ELSE IF Len(list) = 1 THEN list[1]
    ELSE list[1] \o sep \o Join(sep, Tail(list))

\* [t[key] for t in tags]: the names when tags is a list of objects and key is
\* 'name'; indexing a string (an element of a list of strings, a character of
\* a string) with a key raises TypeError, a missing key KeyError
KeyOfEach(tags, key) ==
    IF tags.rep = "objects"
    THEN IF key = "name" \/ tags.names = <<>>
         THEN [error |-> "none", list |-> tags.names]
         ELSE [error |-> "KeyError", list |-> <<>>]
    ELSE IF tags.names = <<>> /\ tags.str = <<>>
         THEN [error |-> "none", list |-> <<>>]
         ELSE [error |-> "TypeError", list |-> <<>>]

\* misp filter_results: keep['tags'] = "|".join([x['name'] for x in v if x['name'] != VETTED_TAG])
filter_results_tags(tags) ==
    TagString(Join(<<"|">>, SelectSeq(tags.names, LAMBDA x : x # VETTED_TAG)))

\* categorize: 'description': " | ".join([t['name'] for t in ind['tags']]);
\* the TruSTAR build_field_values: 'tags', built alike
description_of(tags) ==
    [error |-> KeyOfEach(tags, "name").error,
     text |-> Join(<<" ", "|", " ">>, KeyOfEach(tags, "name").list)]

\* the MISP build_field_values: 'tags': " | ".join([t['event'] for t in ind['tags']])
tags_of_misp(tags) ==
    [error |-> KeyOfEach(tags, "event").error,
     text |-> Join(<<" ", "|", " ">>, KeyOfEach(tags, "event").list)]

\* the CSV writers with the isinstance test lost: every list is joined as it is,
\* and joining objects raises TypeError
csv_tags_no_detection(tags) ==
    IF tags.rep = "objects" /\ tags.names # <<>>
    THEN [error |-> "TypeError", text |-> <<>>]
    ELSE [error |-> "none", text |-> Join(<<"|">>, tags.names)]

\* the CSV writers: names of the objects when the first tag is a dict, the
\* list as it is otherwise, joined with "|"
csv_tags(tags) ==
    IF tags.rep = "objects" /\ tags.names # <<>>
    THEN [error |-> KeyOfEach(tags, "name").error,
          text |-> Join(<<"|">>, KeyOfEach(tags, "name").list)]
    ELSE [error |-> "none", text |-> Join(<<"|">>, tags.names)]

\* the tags values a feed hands over: MISP attributes carry {name} objects,
\* the vetted tag among them; the TruSTAR SDKs hand over objects or strings
TagValues(f) ==
    IF f = "MISP"
    THEN {TagList("objects", s) :
            s \in UNION {[1..n -> {VETTED_TAG, <<"a">>, <<"b">>}] : n \in 0..MaxTags}}
    ELSE {TagList(r, s) :
            r \in {"objects", "names"},
            s \in UNION {[1..n -> {<<"a">>, <<"b">>}] : n \in 0..MaxTags}}

InitTags ==
    /\ feed \in {"TruSTAR", "MISP"}
    /\ iocs \in UNION {[1..n -> {[keys |-> <<"value", "type", "tags">>, value |-> <<"a">>,
                                    type |-> <<"M", "D", "5">>, tags |-> g] :
                                    g \in TagValues(feed)}] : n \in 1..MaxTagInds}
    /\ EncStart

\* the encoder's strings for the indicators of a list, given what it makes of
\* each; the exception of the first indicator that raises one ends the run
EncodeTags(name, results) ==
    /\ encoder' = name
    /\ IF \E i \in 1..Len(results) : results[i].error # "none"
       THEN /\ pc' = "crashed"
            /\ output' = <<>>
       ELSE /\ pc' = "encoded"
            /\ output' = [i \in 1..Len(results) |-> results[i].text]
    /\ UNCHANGED <<feed, iocs, cats, ioc_blocks, skip_log, pageVars, runVars, sendVars>>

\* misp_iocs_to_splunk.py main: filtered_iocs = filter_results(raw_iocs)
FilterResultsTags ==
    /\ pc = "raw" /\ feed = "MISP"
    /\ output' = [i \in 1..Len(iocs) |-> [iocs[i] EXCEPT !.tags = filter_results_tags(@)]]
    /\ encoder' = "filter_results"
    /\ pc' = "filtered"
    /\ UNCHANGED <<feed, iocs, cats, ioc_blocks, skip_log, pageVars, runVars, sendVars>>

\* misp_iocs_to_splunk.py main: iocs = build_field_values(filtered_iocs)
BuildFieldValuesMispTags ==
    /\ pc = "filtered"
    /\ EncodeTags("build_field_values_misp", [i \in 1..Len(output) |-> tags_of_misp(output[i].tags)])

\* trustar2_iocs_splunk_es_api.py main: ioc_cats = categorize(raw_iocs)
CategorizeDescription ==
    /\ pc = "raw" /\ feed = "TruSTAR"
    /\ EncodeTags("categorize", [i \in 1..Len(iocs) |-> description_of(iocs[i].tags)])

\* trustar2_iocs_to_splunk.py: iocs = build_field_values(raw_iocs)
BuildFieldValuesTags ==
    /\ pc = "raw" /\ feed = "TruSTAR"
    /\ EncodeTags("build_field_values", [i \in 1..Len(iocs) |-> description_of(iocs[i].tags)])

\* the header with the tags column left where the first record has it
csv_header_unmoved(list) == list[1].keys

\* header = list(records[0].keys()), the tags column (if any) moved to the end;
\* keys is the key order of a record (a dict keeps its insertion order)
csv_header(list) ==
    LET keys == list[1].keys
    IN  IF \E k \in 1..Len(keys) : keys[k] = "tags"
        THEN SelectSeq(keys, LAMBDA rh : rh # "tags") \o <<"tags">>
        ELSE keys

\* one data row: the cells of the header's columns but tags, then the tags
\* cell: ind_dict_to_csv appends "|".join(tags) whatever the tags (none for
\* a record without the key), obl_dict_to_csv only for non-empty tags,
\* ioc_dicts_to_csv the tags string with " turned into ', only when non-empty;
\* a header column that the record lacks raises KeyError
csv_row(ind, header, writer) ==
    LET has(k) == \E j \in 1..Len(ind.keys) : ind.keys[j] = k
        columns == SelectSeq(header, LAMBDA rh : rh # "tags")
        tags == IF has("tags") THEN ind.tags ELSE TagList("names", <<>>)
        cell == IF writer = "ioc_dicts_to_csv"
                THEN [error |-> "none",
                      text |-> [j \in 1..Len(tags.str) |->
                                    IF tags.str[j] = "\"" THEN "'" ELSE tags.str[j]]]
                ELSE csv_tags(tags)
        appended == \/ writer = "ind_dict_to_csv"
                    \/ tags.names # <<>>
                    \/ tags.str # <<>>
    IN  [error |-> IF \E k \in 1..Len(columns) : ~has(columns[k]) THEN "KeyError"
                   ELSE IF appended THEN cell.error ELSE "none",
         cells |-> [k \in 1..Len(columns) |-> IF has(columns[k]) THEN ind[columns[k]] ELSE <<>>]
                        \o (IF appended THEN <<cell.text>> ELSE <<>>)]

\* the file a writer leaves: the header row and one data row for every record,
\* but for the records whose row raised, which are skipped with a message
csv_rows(list, writer) ==
    LET header == csv_header(list)
        written == SelectSeq(list, LAMBDA ind : csv_row(ind, header, writer).error = "none")
    IN  [header |-> header,
         rows |-> [i \in 1..Len(written) |-> csv_row(written[i], header, writer).cells]]

\* get_trustar_iocs.py: ind_dict_to_csv(iocs, args.outfile, args.split_tags), split_tags off
IndDictToCsv ==
    /\ pc = "raw" /\ feed = "TruSTAR"
    /\ output' = csv_rows(iocs, "ind_dict_to_csv")
    /\ encoder' = "ind_dict_to_csv"
    /\ pc' = "encoded"
    /\ UNCHANGED <<feed, iocs, cats, ioc_blocks, skip_log, pageVars, runVars, sendVars>>

\* get_24h_trustar2_iocs_csv.py: obl_dict_to_csv(obls, OUTPUT_FILENAME)
OblDictToCsv ==
    /\ pc = "raw" /\ feed = "TruSTAR"
    /\ output' = csv_rows(iocs, "obl_dict_to_csv")
    /\ encoder' = "obl_dict_to_csv"
    /\ pc' = "encoded"
    /\ UNCHANGED <<feed, iocs, cats, ioc_blocks, skip_log, pageVars, runVars, sendVars>>

\* get_24h_misp_vetted_iocs_csv.py: ioc_dicts_to_csv(filter_results(iocs))
IocDictsToCsv ==
    /\ pc = "filtered"
    /\ output' = csv_rows(output, "ioc_dicts_to_csv")
    /\ encoder' = "ioc_dicts_to_csv"
    /\ pc' = "encoded"
    /\ UNCHANGED <<feed, iocs, cats, ioc_blocks, skip_log, pageVars, runVars, sendVars>>

NextTags ==
    \/ FilterResultsTags
    \/ BuildFieldValuesMispTags
    \/ CategorizeDescription
    \/ BuildFieldValuesTags
    \/ IndDictToCsv
    \/ OblDictToCsv
    \/ IocDictsToCsv

SpecTags == InitTags /\ [][NextTags]_vars

\* most records in a list written to a CSV file
MaxCsvInds == 2

\* the key orders of the records written: value and type with the tags key
\* anywhere, or without it (only values and types, only values)
CsvKeyOrders ==
    {<<"tags", "value", "type">>, <<"value", "tags", "type">>, <<"value", "type", "tags">>,
     <<"type", "tags", "value">>, <<"value", "type">>, <<"value">>}

\* the records of one list have the same keys in the same order: each is
\* built by the same dict display or comes from the same API answer
InitCsv ==
    /\ feed \in {"TruSTAR", "MISP"}
    /\ \E keys \in CsvKeyOrders :
        iocs \in UNION {[1..n -> {[keys |-> keys, value |-> v, type |-> <<"M", "D", "5">>, tags |-> g] :
                                    v \in {<<"a">>, <<"b">>},
                                    g \in IF feed = "MISP"
                                          THEN {TagList("objects", <<VETTED_TAG>>),
                                                TagList("objects", <<VETTED_TAG, <<"a">>>>)}
                                          ELSE {TagList("names", <<>>), TagList("names", <<<<"a">>>>),
                                                TagList("objects", <<<<"a">>, <<"b">>>>)}}] :
                        n \in 1..MaxCsvInds}
    /\ EncStart

NextCsv ==
    \/ FilterResultsTags
    \/ IndDictToCsv
    \/ OblDictToCsv
    \/ IocDictsToCsv

SpecCsv == InitCsv /\ [][NextCsv]_vars

----------------------------------------------------------------------------
\* The run of a script from its start to its exit: command line, configuration
\* file, first request to the source, output.  exit() and sys.exit() without
\* an argument and the end of the script give exit code 0, an exception that
\* nothing catches gives 1.

\* scripts that read rh-isac.conf / config.conf themselves
ConfigScripts ==
    {"misp_iocs_crowdstrike_falcon", "trustar_iocs_crowdstrike_falcon",
     "trustar_iocs_to_microsoft", "misp_vetted_iocs_insightidr",
     "get_24h_misp_vetted_iocs_json"}

\* scripts with the only_vals and only_vt flags
ArgScripts == {"get_trustar_iocs", "get_trustar2_iocs"}

MispScripts ==
    {"misp_iocs_crowdstrike_falcon", "misp_vetted_iocs_insightidr",
     "get_24h_misp_vetted_iocs_json"}

\* what the configuration part of __main__ (get_misp_key in the JSON script)
\* makes of a configuration file
read_config(s, c) ==
    IF ~c.found
    THEN [outcome |-> "exit", printed |-> <<[text |-> "Config file not found", about |-> "file"]>>]
    ELSE IF s = "get_24h_misp_vetted_iocs_json"
    THEN IF "source" \in c.keys
         THEN [outcome |-> "ok", printed |-> <<>>]
         ELSE [outcome |-> "exit", printed |-> <<[text |-> "Cannot find", about |-> "source"]>>]
    ELSE IF "destination" \notin c.sections
    THEN [outcome |-> "exit", printed |-> <<[text |-> "Missing config section", about |-> "destination"]>>]
    ELSE IF "source" \notin c.sections
    THEN [outcome |-> "exit", printed |-> <<[text |-> "Missing config section", about |-> "source"]>>]
    ELSE IF c.keys # {"destination", "source"}
    THEN IF s = "trustar_iocs_to_microsoft"
         THEN [outcome |-> "KeyError", printed |-> <<>>]
         ELSE [outcome |-> "exit", printed |-> <<[text |-> "Cannot find", about |-> "key"]>>]
    ELSE [outcome |-> "ok", printed |-> <<>>]

\* the run ends: exit() or the end of the script (code 0), uncaught exception (1)
Ends(how, printed) ==
    /\ stdout' = stdout \o printed
    /\ pc' = IF how = "raised" THEN "crashed" ELSE "exited"
    /\ exit_code' = IF how = "raised" THEN 1 ELSE 0

GoesOn(to, printed) ==
    /\ stdout' = stdout \o printed
    /\ pc' = to
    /\ UNCHANGED exit_code

\* __main__ up to the credentials
ReadConfig ==
    /\ pc = "start" /\ script \in ConfigScripts
    /\ LET r == read_config(script, conf)
       IN  IF r.outcome = "ok" THEN GoesOn("configured", r.printed)
           ELSE Ends(IF r.outcome = "KeyError" THEN "raised" ELSE "exit", r.printed)
    /\ UNCHANGED <<script, conf, args, requests, outfile, pageVars, encVars, sendVars>>

\* __main__ of the scripts with flags, up to the call of retrieve_iocs /
\* retrieve_obls: only get_trustar2_iocs validates the flags here
ParseArgs ==
    /\ pc = "start" /\ script \in ArgScripts
    /\ IF script = "get_trustar2_iocs" /\ args.only_vals /\ args.only_vt
       THEN Ends("exit", <<[text |-> "Parameters \"only_vals\" and \"only_vt\" cannot both be True", about |-> "args"]>>)
       ELSE GoesOn("configured", <<>>)
    /\ UNCHANGED <<script, conf, args, requests, outfile, pageVars, encVars, sendVars>>

\* the call that fetches the indicators and what __main__ does with an empty
\* result; answer is what the source does with the first requests
RetrieveIocs ==
    /\ pc = "configured"
    /\ \E answer \in {"refused", "empty", "iocs"} :
        IF script = "get_trustar_iocs" /\ args.only_vals /\ args.only_vt
        THEN /\ Ends("end", <<[text |-> "Parameters \"only_vals\" and \"only_vt\" cannot both be True", about |-> "args"],
                              [text |-> "No IOCs matched the query. Nothing to output.", about |-> "none"]>>)
             /\ UNCHANGED requests
        ELSE /\ requests' = requests + 1
             /\ CASE answer = "iocs" -> GoesOn("retrieved", <<>>)
                  [] answer = "empty" -> Ends("exit", <<[text |-> "No IOCs found", about |-> "none"]>>)
                  [] answer = "refused" /\ script \in MispScripts ->
                        Ends("exit", <<[text |-> "Error while query MISP for IOCs", about |-> "auth"]>>)
                  [] answer = "refused" /\ script = "get_trustar_iocs" ->
                        Ends("end", <<[text |-> "Failed to access API. Check your \"trustar.conf\" file", about |-> "auth"],
                                      [text |-> "No IOCs matched the query. Nothing to output.", about |-> "none"]>>)
                  [] OTHER -> Ends("raised", <<>>)
    /\ UNCHANGED <<script, conf, args, outfile, pageVars, encVars, sendVars>>

\* the rest of __main__: the output file is written, or the indicators are
\* sent; accepted is whether the destination lets the request in
Deliver ==
    /\ pc = "retrieved"
    /\ \E accepted \in BOOLEAN :
        IF script \in ArgScripts \/ script = "get_24h_misp_vetted_iocs_json"
        THEN /\ outfile' = TRUE
             /\ Ends("end", <<[text |-> "Wrote IOCs to file", about |-> "none"]>>)
             /\ UNCHANGED requests
        ELSE /\ requests' = requests + 1
             /\ UNCHANGED outfile
             /\ CASE script = "misp_vetted_iocs_insightidr" /\ ~accepted ->
                        Ends("exit", <<[text |-> "ERROR - Response from IDR was", about |-> "auth"]>>)
                  [] script = "trustar_iocs_to_microsoft" /\ ~accepted -> Ends("raised", <<>>)
                  [] OTHER -> Ends("end", <<[text |-> "Done", about |-> "none"]>>)
    /\ UNCHANGED <<script, conf, args, pageVars, encVars, sendVars>>

InitRun ==
    /\ pc = "start"
    /\ script \in ConfigScripts \cup ArgScripts
    /\ IF script \in ConfigScripts
       THEN /\ conf \in {c \in [found : BOOLEAN, sections : SUBSET {"destination", "source"},
                                 keys : SUBSET {"destination", "source"}] :
                            /\ c.keys \subseteq c.sections
                            /\ ~c.found => c.sections = {}}
            /\ args = [only_vals |-> FALSE, only_vt |-> FALSE]
       ELSE /\ conf = [found |-> TRUE, sections |-> {}, keys |-> {}]
            /\ args \in [only_vals : BOOLEAN, only_vt : BOOLEAN]
    /\ stdout = <<>>
    /\ requests = 0
    /\ outfile = FALSE
    /\ exit_code = -1
    /\ PageIdle
    /\ EncIdle

NextRun ==
    \/ ReadConfig
    \/ ParseArgs
    \/ RetrieveIocs
    \/ Deliver

SpecRun == InitRun /\ [][NextRun]_vars

----------------------------------------------------------------------------
\* split_results of the InsightIDR script

\* most indicators in a list that is split
MaxSplit == 3

\* TYPE_MAP of misp_vetted_iocs_insightidr.py
IDR_TYPE_MAP ==
    [t \in {"domain", "hostname", "ip-src", "ip-dst", "IP6", "md5", "url"} |->
        CASE t \in {"domain", "hostname"} -> "domain_names"
          [] t \in {"ip-src", "ip-dst", "IP6"} -> "ips"
          [] t = "md5" -> "hashes"
          [] t = "url" -> "urls"]

\* the loop body with a bucket that takes a value only once
split_step_once(acc, ioc) ==
    IF ioc.type \in DOMAIN IDR_TYPE_MAP
    THEN IF \E k \in 1..Len(acc.results[IDR_TYPE_MAP[ioc.type]]) :
                acc.results[IDR_TYPE_MAP[ioc.type]][k] = ioc.value
         THEN acc
         ELSE [acc EXCEPT !.results[IDR_TYPE_MAP[ioc.type]] = Append(@, ioc.value)]
    ELSE [acc EXCEPT !.log = Append(@, ioc.type), !.skipped = @ + 1]

\* the loop body: the value goes to the bucket of its type, or the indicator
\* is skipped with a message that names its type
split_step(acc, ioc) ==
    IF ioc.type \in DOMAIN IDR_TYPE_MAP
    THEN [acc EXCEPT !.results[IDR_TYPE_MAP[ioc.type]] = Append(@, ioc.value)]
    ELSE [acc EXCEPT !.log = Append(@, ioc.type), !.skipped = @ + 1]

RECURSIVE split_results_from(_, _)
split_results_from(list, acc) ==
    IF list = <<>> THEN acc
    ELSE split_results_from(Tail(list), split_step(acc, Head(list)))

split_results(list) ==
    split_results_from(list, [results |-> [ips |-> <<>>, hashes |-> <<>>, domain_names |-> <<>>, urls |-> <<>>],
                              skipped |-> 0, log |-> <<>>])

InitSplit ==
    /\ iocs \in UNION {[1..n -> [type : DOMAIN IDR_TYPE_MAP \cup {"sha256", "email-src"},
                                 value : {"a", "b"}]] : n \in 0..MaxSplit}
    /\ feed = "MISP"
    /\ EncStart
    /\ PageIdle
    /\ SendIdle
    /\ RunIdle

\* __main__: split = split_results(filtered)
SplitResults ==
    /\ pc = "raw"
    /\ output' = [results |-> split_results(iocs).results, skipped |-> split_results(iocs).skipped]
    /\ skip_log' = split_results(iocs).log
    /\ encoder' = "split_results"
    /\ pc' = "encoded"
    /\ UNCHANGED <<feed, iocs, cats, ioc_blocks, pageVars, runVars, sendVars>>

SpecSplit == InitSplit /\ [][SplitResults]_vars

----------------------------------------------------------------------------
\* Claims about the pagination

\* the source model of C1, C2: pairwise distinct last_seen, all inside the window
DistinctInWindow ==
    /\ \A i, j \in 1..Len(source) : source[i] = source[j] => i = j
    /\ \A i \in 1..Len(source) : from_time <= source[i] /\ source[i] <= to_time

\* what the loops rely on: metadata for every item, and, in retrieve_iocs
\* ("items ordered by last_seen time, descending"), pages listed newest first
SourceContract == fullMeta /\ (variant = "retrieve_iocs" => ordered)

PageMin == SetMin({source[i] : i \in Range(page)})

\* C1: over a source of N indicators with pairwise distinct last_seen inside the
\* window that answers each query with the newest page_size indicators up to
\* pg_to, the accumulated result never holds an indicator twice and, when the
\* loop has ended, holds each of the N indicators exactly once.
C1_EachIndicatorExactlyOnce ==
    (DistinctInWindow /\ SourceContract) =>
        /\ \A i \in 1..Len(source) : Count(all_metadata, i) <= 1
        /\ pc = "done" =>
            /\ Len(all_metadata) = Len(source)
            /\ \A i \in 1..Len(source) : Count(all_metadata, i) = 1

C1_Witness ==
    /\ pc = "done" /\ DistinctInWindow /\ SourceContract
    /\ Len(source) >= 3 /\ page_size = 2 /\ queries >= 3
    /\ Len(all_metadata) = Len(source)

\* C2: over the same source the loop terminates: it issues at most
\* ceil(N / page_size) + 1 queries, each step being one query, and is never
\* stuck before its end; it has ended only on an empty page or with
\* pg_to < from_time, and goes on only after a non-empty page with
\* pg_to >= from_time.
C2_TerminatesWithinQueryBound ==
    (DistinctInWindow /\ SourceContract) =>
        /\ queries <= CeilDiv(Len(source), page_size) + 1
        /\ pc = "query" => ENABLED NextPage
        /\ pc = "done" => (page = <<>> \/ pg_to < from_time)
        /\ (pc = "query" /\ queries > 0) => (page # <<>> /\ pg_to >= from_time)

C2_Witness ==
    /\ pc = "done" /\ DistinctInWindow /\ SourceContract
    /\ Len(source) >= 2 /\ page_size >= 2
    /\ queries = CeilDiv(Len(source), page_size) + 1
    /\ page = <<>>

\* C3 as stated: after every non-empty page pg_to is the minimum last_seen of
\* the page minus 1, whatever the order of the items inside the page.
C3_CursorIsPageMinimumAnyOrder ==
    page # <<>> => pg_to = PageMin - 1

\* C3 as amended: after every non-empty page pg_to is the minimum last_seen of
\* the page minus 1 when the page is listed newest first (retrieve_iocs reads
\* the last item); retrieve_last24h_iocs, given metadata for every item, takes
\* the minimum whatever the order.
C3_CursorIsPageMinimum ==
    (page # <<>> /\ SourceContract) => pg_to = PageMin - 1

C3_Witness ==
    /\ page # <<>> /\ SourceContract
    /\ variant = "retrieve_last24h_iocs" /\ ~ordered
    /\ \E k \in 1..(Len(page) - 1) : source[page[k]] < source[page[k + 1]]
    /\ pg_to = PageMin - 1

\* C4: the indicators that share the minimum last_seen of a full page and were
\* left out of it are in no later page (they never reach the result), and no
\* indicator is returned twice.
C4_BoundaryRecordsDropped ==
    SourceContract =>
        /\ \A d \in dropped : d \notin Range(all_metadata)
        /\ \A i \in 1..Len(source) : Count(all_metadata, i) <= 1

C4_Witness ==
    /\ pc = "done" /\ SourceContract /\ variant = "retrieve_iocs"
    /\ dropped # {} /\ queries >= 2
    /\ Len(all_metadata) < Cardinality(InRange(to_time))

----------------------------------------------------------------------------
\* Claims about the reclassifiers and the encoders

\* the value with everything up to and including its first "://" removed
StrippedValue(v) ==
    IF \E i \in 1..Len(v) : OccursAt(v, SchemeSep, i)
    THEN LET first == CHOOSE i \in 1..Len(v) :
                        /\ OccursAt(v, SchemeSep, i)
                        /\ \A j \in 1..(i - 1) : ~OccursAt(v, SchemeSep, j)
         IN  [k \in 1..(Len(v) - first - 2) |-> v[first + 2 + k]]
    ELSE v

HasSlash(s) == \E i \in 1..Len(s) : s[i] = "/"

FirstSlash(s) == CHOOSE i \in 1..Len(s) : s[i] = "/" /\ \A j \in 1..(i - 1) : s[j] # "/"

\* what stands before the first '/' (everything when there is none)
HostPart(s) == IF HasSlash(s) THEN [k \in 1..(FirstSlash(s) - 1) |-> s[k]] ELSE s

\* what stands after the first '/' (nothing when there is none)
PathPart(s) ==
    IF HasSlash(s) THEN [k \in 1..(Len(s) - FirstSlash(s)) |-> s[FirstSlash(s) + k]] ELSE <<>>

HasAtOrColon(s) == \E i \in 1..Len(s) : s[i] \in {"@", ":"}

\* one URL-typed indicator was fetched
OneUrl == Len(iocs) = 1 /\ iocs[1].type = UrlType(feed)

\* C5: categorize files a URL-typed indicator, once its scheme is stripped, as
\* {domain: host} when nothing follows the host but at most one '/', and the
\* host has neither '@' nor ':', and as {url: '*' + stripped value} otherwise;
\* so for the four example values.
C5_CategorizeUrlRule ==
    (encoder = "categorize" /\ OneUrl) =>
        LET s == StrippedValue(iocs[1].value)
            entry == cats.http_intel[1]
        IN  /\ Len(cats.http_intel) = 1
            /\ IF PathPart(s) = <<>> /\ ~HasAtOrColon(HostPart(s))
               THEN entry = categorize_fields @@ ("domain" :> HostPart(s))
               ELSE entry = categorize_fields @@ ("url" :> <<"*">> \o s)
            /\ iocs[1].value = HttpExampleCom => entry.domain = ExampleCom
            /\ iocs[1].value = HttpExampleComSlash => entry.domain = ExampleCom
            /\ iocs[1].value = HttpExampleComPath =>
                    entry.url = <<"*">> \o ExampleCom \o <<"/", "p", "a", "t", "h">>
            /\ iocs[1].value = HttpUserAtExampleCom => "url" \in DOMAIN entry

C5_Witness ==
    /\ encoder = "categorize" /\ OneUrl
    /\ iocs[1].value = HttpExampleComSlash
    /\ cats.http_intel = <<categorize_fields @@ ("domain" :> ExampleCom)>>

\* the reclassifier has retyped the one URL-typed indicator as a domain
RetypedDomain ==
    IF encoder = "categorize" THEN "domain" \in DOMAIN cats.http_intel[1]
    ELSE output[1].ioc_type = "domain"

\* the value the reclassifier has left on the one URL-typed indicator
ResultValue ==
    IF encoder = "categorize" THEN cats.http_intel[1].domain ELSE output[1].value

\* C6 as stated: categorize and the TruSTAR build_field_values retype as Domain
\* every URL-typed value that has no '/' once its scheme is stripped, whatever
\* other characters it contains.
C6_NoSlashAlwaysDomain ==
    (encoder \in {"categorize", "build_field_values"} /\ OneUrl
        /\ ~HasSlash(StrippedValue(iocs[1].value)))
    => RetypedDomain

\* C6 as amended: categorize and the TruSTAR build_field_values retype as Domain
\* a URL-typed value that has no '/' once its scheme is stripped exactly when
\* it contains neither '@' nor ':'; the domain is then the stripped value.
C6_NoSlashDomainUnlessAtOrColon ==
    (encoder \in {"categorize", "build_field_values"} /\ OneUrl
        /\ ~HasSlash(StrippedValue(iocs[1].value)))
    => /\ RetypedDomain <=> ~HasAtOrColon(StrippedValue(iocs[1].value))
       /\ RetypedDomain => ResultValue = StrippedValue(iocs[1].value)

C6_Witness ==
    /\ encoder = "build_field_values" /\ OneUrl
    /\ iocs[1].value = HttpUserAtExampleCom
    /\ output[1].ioc_type = "url"

\* C7: every URL-typed indicator that build_field_values (TruSTAR, MISP) leaves
\* typed 'url' carries a 'wildcard' field, '*' followed by its scheme-stripped value.
C7_UrlCarriesWildcard ==
    (encoder \in {"build_field_values", "build_field_values_misp"} /\ OneUrl) =>
        \A i \in 1..Len(output) :
            output[i].ioc_type = "url" =>
                /\ "wildcard" \in DOMAIN output[i]
                /\ output[i].wildcard = <<"*">> \o StrippedValue(iocs[1].value)

\* C8: categorize appends exactly one http_intel entry for each URL-typed
\* indicator of the list, and every entry has exactly one of the keys
\* 'domain' and 'url'.
C8_OneOutcomePerUrl ==
    encoder = "categorize" =>
        /\ Len(cats.http_intel) = Cardinality({i \in 1..Len(iocs) : iocs[i].type = "URL"})
        /\ \A k \in 1..Len(cats.http_intel) :
            ("domain" \in DOMAIN cats.http_intel[k]) # ("url" \in DOMAIN cats.http_intel[k])

C8_Witness ==
    /\ encoder = "categorize" /\ Len(iocs) = 2
    /\ iocs[1].type = "URL" /\ iocs[2].type = "URL"
    /\ Len(cats.http_intel) = 2
    /\ "domain" \in DOMAIN cats.http_intel[1]
    /\ "url" \in DOMAIN cats.http_intel[2]

\* C9: for every URL-typed value the regex reclassifier of retrieve_last24h_obls
\* and the decision tree of categorize reach the same type and, when Domain,
\* the same value.
C9_RegexAgreesWithSplit ==
    (encoder = "retrieve_last24h_obls" /\ OneUrl) =>
        LET entry == categorize(iocs).http_intel[1]
        IN  /\ output[1].type = "DOMAIN" <=> "domain" \in DOMAIN entry
            /\ output[1].type = "DOMAIN" => output[1].value = entry.domain

RECURSIVE SumLen(_)
SumLen(ss) == IF ss = <<>> THEN 0 ELSE Len(Head(ss)) + SumLen(Tail(ss))

\* records the encoder that ran has produced
NumRecords ==
    CASE encoder = "categorize" ->
            Len(cats.email_intel) + Len(cats.file_intel)
                + Len(cats.http_intel) + Len(cats.ip_intel)
      [] encoder = "upload_iocs" -> SumLen(ioc_blocks)
      [] OTHER -> Len(output)

\* C10: every encoder, on every non-empty list, produces one record or prints
\* one skip message for each indicator: records + skip messages = indicators.
C10_RecordsPlusSkipsEqualInputs ==
    (pc = "encoded" /\ iocs # <<>>) => NumRecords + Len(skip_log) = Len(iocs)

\* the list holds exactly one indicator of each of the three kinds of C11
ThreeIndicators ==
    /\ Len(iocs) = 3
    /\ \E i, j, k \in 1..3 :
        /\ {i, j, k} = 1..3
        /\ iocs[i].type \in {"IP4", "IP6"}
        /\ iocs[j] = [type |-> "URL", value |-> HttpExampleCom]
        /\ iocs[k] = [type |-> "URL", value |-> HttpExampleComPath]

\* C11: given one IP indicator (type IP4 or IP6), the URL-typed bare domain
\* http://example.com and the URL-typed http://example.com/path, categorize
\* returns one ip_intel entry and two http_intel entries, the path entry with
\* url '*example.com/path', and nothing in email_intel and file_intel.
C11_ThreeIndicatorsBucketed ==
    (encoder = "categorize" /\ ThreeIndicators) =>
        /\ Len(cats.ip_intel) = 1
        /\ Len(cats.http_intel) = 2
        /\ \E k \in 1..Len(cats.http_intel) :
            /\ "url" \in DOMAIN cats.http_intel[k]
            /\ cats.http_intel[k].url = <<"*">> \o ExampleCom \o <<"/", "p", "a", "t", "h">>
        /\ cats.email_intel = <<>>
        /\ cats.file_intel = <<>>

----------------------------------------------------------------------------
\* Claims about upload_iocs (CrowdStrike)

\* the indicators of the input whose type is in TYPE_MAP, as block entries
MappedIocs ==
    LET mapped == SelectSeq(output, LAMBDA ioc : ioc.type \in DOMAIN FalconTypeMap)
    IN  [k \in 1..Len(mapped) |-> ioc_dict_of(mapped[k])]

RECURSIVE Flatten(_)
Flatten(ss) == IF ss = <<>> THEN <<>> ELSE Head(ss) \o Flatten(Tail(ss))

\* C12: upload_iocs splits the indicators whose type is in TYPE_MAP into blocks
\* of 1 to 200 entries, every block but the last holding exactly 200; the
\* blocks concatenated in order are the mapped indicators in input order, each once.
C12_BlocksOfAtMost200 ==
    encoder = "upload_iocs" =>
        /\ \A k \in 1..Len(ioc_blocks) :
            /\ 1 <= Len(ioc_blocks[k]) /\ Len(ioc_blocks[k]) <= 200
            /\ k < Len(ioc_blocks) => Len(ioc_blocks[k]) = 200
        /\ Flatten(ioc_blocks) = MappedIocs

C12_Witness ==
    /\ encoder = "upload_iocs"
    /\ Len(ioc_blocks) = 3
    /\ Len(ioc_blocks[1]) = 200 /\ Len(ioc_blocks[2]) = 200 /\ Len(ioc_blocks[3]) = 1
    /\ Len(skip_log) = 0

\* the iteration of the submission loop that ran last resubmitted its block
Resubmitted ==
    /\ encoder = "upload_iocs"
    /\ Len(calls) >= 2
    /\ calls[Len(calls) - 1].block = calls[Len(calls)].block

\* values of the errors handled last whose message has 'Warning: Duplicate type'
DuplicateValues ==
    {errors[e].value : e \in {k \in 1..Len(errors) : Contains(errors[k].message, DuplicateWarning)}}

\* C13: after a 400 response the block that is resubmitted holds no entry
\* whose value is that of an error with 'Warning: Duplicate type' in its
\* message, and holds every other entry of the block, in the original order.
C13_ResubmittedWithoutDuplicates ==
    Resubmitted =>
        body = SelectSeq(build_blocks(output).ioc_blocks[block_i],
                         LAMBDA ioc : ioc.value \notin DuplicateValues)

\* C14: a resubmitted block is reported as submitted successfully exactly when
\* the response to the resubmission has a success status.
C14_OutcomeFromResubmission ==
    Resubmitted =>
        (report[Len(report)].msg = "Block submitted successfully."
            <=> calls[Len(calls)].status \in SuccessCodes)

\* indices of the indicator_create calls made for block b
CallsFor(b) == {k \in 1..Len(calls) : calls[k].block = b}

\* C15: indicator_create is called once or twice for each block; twice only
\* when the first response was a 400, so neither the response to the
\* resubmission nor any other status (429, 5xx) brings a further call.
C15_AtMostOneResubmission ==
    encoder = "upload_iocs" =>
        /\ Len(calls) <= 2 * block_i
        /\ \A b \in 0..(block_i - 1) :
            /\ Cardinality(CallsFor(b)) \in {1, 2}
            /\ Cardinality(CallsFor(b)) = 2 <=> calls[SetMin(CallsFor(b))].status = 400

C15_Witness ==
    /\ encoder = "upload_iocs" /\ pc = "done" /\ Len(ioc_blocks) = 2
    /\ Len(calls) = 3
    /\ calls[1].status = 400 /\ calls[2].status = 400 /\ calls[2].block = 0
    /\ calls[3].status = 429 /\ calls[3].block = 1

\* the response that decided about block b: the one to the call made last for it
LastStatus(b) == calls[CHOOSE k \in CallsFor(b) : \A j \in CallsFor(b) : j <= k].status

\* C16: a failed batch does not stop the run.  upload_iocs (CrowdStrike) goes
\* through every block whatever the earlier responses were, and the Splunk ES
\* main loop posts every non-empty lookup whatever the earlier posts returned;
\* a batch whose response is not a success is never reported as a success.
C16_FailureDoesNotStopRun ==
    /\ encoder = "upload_iocs" =>
        /\ pc = "done" => block_i = Len(ioc_blocks)
        /\ (pc = "encoded" /\ ioc_blocks # <<>>) => block_i < Len(ioc_blocks)
        /\ Len(report) = block_i
        /\ \A b \in 0..(block_i - 1) :
            /\ CallsFor(b) # {}
            /\ report[b + 1].block = b
            /\ LastStatus(b) \notin SuccessCodes
                    => report[b + 1].msg # "Block submitted successfully."
    /\ (encoder = "categorize" /\ auth = "ok") =>
        /\ pc = "done" => block_i = Len(Lookups)
        /\ \A b \in 0..(block_i - 1) :
            /\ cats[Lookups[b + 1]] # <<>> =>
                    \E k \in 1..Len(calls) :
                        /\ calls[k].request = Lookups[b + 1]
                        /\ calls[k].size = Len(cats[Lookups[b + 1]])
                        /\ calls[k].status # 201
                                => report[b + 1].msg = "Failed to upload IOCs to lookup"
            /\ report[b + 1].block = b

C16_Witness ==
    /\ encoder = "upload_iocs" /\ pc = "done"
    /\ Len(ioc_blocks) = 2
    /\ calls[1].status = 500
    /\ calls[2].block = 1 /\ calls[2].status = 200
    /\ report[1].msg = "Unknown response code:"
    /\ report[2].msg = "Block submitted successfully."

\* requests that deliver indicators or start a search on the destination
DeliveryRequests ==
    {Lookups[k] : k \in 1..Len(Lookups)}
        \cup {"dispatch", "collections/config", "create collection", "batch_save", "tiIndicators"}

\* C17: no delivery request is sent to a destination whose authentication
\* failed: lookup posts and dispatches only after can_access_splunk returned
\* True, the kvstore check and batch_save only after auth_to_splunk returned
\* True, submit_ioc only after get_token obtained a non-empty access token.
C17_NoDeliveryWithoutAuth ==
    \A k \in 1..Len(calls) : calls[k].request \in DeliveryRequests => auth = "ok"

\* C18: upload_iocs (Microsoft) counts every IOC exactly once: it goes through
\* the whole list, submitted_iocs is the number of POSTs answered with 201, an
\* IOC of unrecognised type is not posted and is in errored_iocs once, and
\* submitted_iocs + len(errored_iocs) is the number of IOCs gone through.
C18_EveryIocCountedOnce ==
    (encoder = "upload_iocs_microsoft" /\ auth = "ok") =>
        /\ pc # "crashed"
        /\ counts.submitted_iocs + Len(counts.errored_iocs) = block_i
        /\ pc = "done" => block_i = Len(output)
        /\ counts.submitted_iocs
                = Cardinality({k \in 1..Len(calls) :
                                calls[k].request = "tiIndicators" /\ calls[k].status = 201})
        /\ \A i \in 1..block_i :
                output[i].type \notin MicrosoftTypes =>
                    /\ Count(counts.errored_iocs, output[i])
                            <= Cardinality({j \in 1..block_i : output[j] = output[i]})
                    /\ \A k \in 1..Len(calls) :
                            calls[k].request = "tiIndicators" => calls[k].block # i - 1

----------------------------------------------------------------------------
\* Claims about the tags

\* the tag names of the i-th indicator that its encoder is to render: all of
\* them, but for the vetted tag that filter_results leaves out
NamesToRender(i) == SelectSeq(iocs[i].tags.names, LAMBDA x : feed = "MISP" => x # VETTED_TAG)

\* C19: every encoder handles the tags as its field mapper hands them over
\* (list of strings, list of {name} objects, pipe-joined string): categorize
\* and build_field_values never fail on them and produce, for every indicator,
\* a string made of its tag names in order.
C19_EncodersHandleTheirTags ==
    encoder \in {"categorize", "build_field_values", "build_field_values_misp"} =>
        /\ pc # "crashed"
        /\ Len(output) = Len(iocs)
        /\ \A i \in 1..Len(output) : output[i] = Join(<<" ", "|", " ">>, NamesToRender(i))

\* C20: with split_tags off, ind_dict_to_csv and obl_dict_to_csv write for every
\* indicator with a non-empty tag list one tags cell, the tag names joined by
\* '|' in list order, for {name} objects and for plain strings alike:
\* [{name:a},{name:b}] and [a,b] both give 'a|b'.
C20_CsvTagsCell ==
    encoder \in {"ind_dict_to_csv", "obl_dict_to_csv"} =>
        /\ Len(output.rows) = Len(iocs)
        /\ \A i \in 1..Len(iocs) :
            iocs[i].tags.names # <<>> =>
                /\ Len(output.rows[i]) = 3
                /\ output.rows[i][3] = Join(<<"|">>, iocs[i].tags.names)
                /\ iocs[i].tags.names = <<<<"a">>, <<"b">>>> => output.rows[i][3] = <<"a", "|", "b">>

C20_Witness ==
    /\ encoder = "obl_dict_to_csv" /\ Len(iocs) = 2
    /\ iocs[1].tags = TagList("objects", <<<<"a">>, <<"b">>>>)
    /\ iocs[2].tags = TagList("names", <<<<"a">>, <<"b">>>>)
    /\ output.rows[1][3] = <<"a", "|", "b">>
    /\ output.rows[2][3] = <<"a", "|", "b">>

----------------------------------------------------------------------------
\* Claims about the CSV files

CsvWriters == {"ind_dict_to_csv", "obl_dict_to_csv", "ioc_dicts_to_csv"}

\* the keys of the records written, but tags, in the order of the first record
OtherKeys == SelectSeq(iocs[1].keys, LAMBDA k : k # "tags")

HasTagsKey == \E k \in 1..Len(iocs[1].keys) : iocs[1].keys[k] = "tags"

C28_RowsAsLongAsHeader ==
    encoder \in CsvWriters =>
        \A i \in 1..Len(output.rows) : Len(output.rows[i]) = Len(output.header)

----------------------------------------------------------------------------
\* Claims about the run of a script

Ended == pc \in {"exited", "crashed"}

Printed(abouts) == \E k \in 1..Len(stdout) : stdout[k].about \in abouts

\* C22: when both only_vals and only_vt are requested, the run issues no API
\* query, writes no output file, prints an error message and ends with a
\* non-zero process exit code.
C22_BothFlagsRejected ==
    (script \in ArgScripts /\ args.only_vals /\ args.only_vt) =>
        /\ requests = 0
        /\ ~outfile
        /\ Ended => (Printed({"args"}) /\ exit_code > 0)

\* the sections a script needs with all their keys
Required == IF script = "get_24h_misp_vetted_iocs_json" THEN {"source"} ELSE {"destination", "source"}

\* C23: if the config file is missing, or lacks a required section or a required
\* key, the run prints a message naming what is missing and terminates before
\* any request to the source or to the destination is issued.
C23_MissingConfigNamed ==
    (script \in ConfigScripts /\ (~conf.found \/ ~(Required \subseteq conf.keys))) =>
        /\ requests = 0
        /\ pc # "start" => (Ended /\ Printed({"file", "destination", "source", "key"}))

\* C24: a run that stops on a fatal configuration or authentication error ends
\* with a non-zero exit code; exit code 0 is returned only by runs that
\* succeeded or had nothing to do.
C24_FatalErrorsExitNonZero ==
    exit_code = 0 => ~Printed({"file", "destination", "source", "key", "auth"})

----------------------------------------------------------------------------
\* Claims about split_results

Buckets == {"ips", "hashes", "domain_names", "urls"}

\* the indicators of the input that belong to bucket b, in input order
BelongTo(b) == SelectSeq(iocs, LAMBDA ioc : ioc.type \in DOMAIN IDR_TYPE_MAP /\ IDR_TYPE_MAP[ioc.type] = b)

Unmapped == SelectSeq(iocs, LAMBDA ioc : ioc.type \notin DOMAIN IDR_TYPE_MAP)

\* C25: split_results partitions its input: the value of every IOC with a type
\* in TYPE_MAP is in the bucket TYPE_MAP[type] and in no other, once per
\* occurrence and in input order; every other IOC is in no bucket and is
\* counted as skipped with a message; bucket sizes plus skipped count equal
\* the input length.
C25_SplitResultsPartitions ==
    encoder = "split_results" =>
        /\ DOMAIN output.results = Buckets
        /\ \A b \in Buckets :
                output.results[b] = [k \in 1..Len(BelongTo(b)) |-> BelongTo(b)[k].value]
        /\ output.skipped = Len(Unmapped)
        /\ skip_log = [k \in 1..Len(Unmapped) |-> Unmapped[k].type]
        /\ Len(output.results.ips) + Len(output.results.hashes) + Len(output.results.domain_names)
                + Len(output.results.urls) + output.skipped = Len(iocs)

C25_Witness ==
    /\ encoder = "split_results"
    /\ iocs = <<[type |-> "hostname", value |-> "a"], [type |-> "sha256", value |-> "a"],
                [type |-> "domain", value |-> "a"]>>
    /\ output.results.domain_names = <<"a", "a">>
    /\ output.skipped = 1

----------------------------------------------------------------------------
\* Claims about the loops with a source off its contract

\* a query has been answered with a non-empty page
PageFetched == queries' = queries + 1 /\ page' # <<>>

\* C26: in retrieve_iocs, if the last item of a returned page has a last_seen
\* greater than the pg_to that was queried, the fetch is aborted: the loop
\* has ended, so that no further query is issued, and the cursor is not
\* advanced from the out-of-range value.
C26_OutOfRangeAborts ==
    [][(variant = "retrieve_iocs" /\ PageFetched /\ source[page'[Len(page')]] > pg_to)
            => (pc' = "done" /\ pg_to' = pg_to)]_vars

\* C27: in retrieve_last24h_iocs, for every non-empty page whose items have
\* last_seen <= pg_to and for every metadata result, empty or smaller than the
\* page included, pg_to strictly decreases from a query to the next and never
\* exceeds the initial to_time.
C27_CursorDecreases ==
    [][(/\ variant = "retrieve_last24h_iocs"
        /\ PageFetched
        /\ \A k \in 1..Len(page') : source[page'[k]] <= pg_to)
            => (pg_to' < pg_to /\ pg_to' <= to_time)]_vars

----------------------------------------------------------------------------
\* Claims about the kvstore

\* position of the first request of a kind among the calls, 0 if there is none
FirstCall(request) ==
    IF \E k \in 1..Len(calls) : calls[k].request = request
    THEN CHOOSE k \in 1..Len(calls) :
            /\ calls[k].request = request
            /\ \A j \in 1..(k - 1) : calls[j].request # request
    ELSE 0

\* C29: post_iocs_to_splunk sends the batch_save request only when the kvstore
\* collection is known to be configured: the lookup of the collection
\* succeeded (200) or the creation of the collection returned 201; after any
\* other answer to the lookup (401, 403, 500, a 404 without 'Could not find
\* object id') nothing is posted.
C29_BatchSaveOnlyIfConfigured ==
    FirstCall("batch_save") > 0 =>
        \/ calls[FirstCall("collections/config")].status = 200
        \/ /\ FirstCall("create collection") > 0
           /\ calls[FirstCall("create collection")].status = 201

----------------------------------------------------------------------------
\* Claims about the cidr field

\* the prefix lengths of an IPv4 network, as written
PrefixLengths == {Decimal(n) : n \in 0..32}

\* C30: for every indicator of type IP or CIDR_BLOCK, build_field_values sets
\* 'cidr' to address/prefix with a prefix length between 0 and 32: the value
\* itself when it ends in '/n' with 0 <= n <= 32, value + '/32' only when the
\* value carries no prefix length; the field has one '/' separator and never
\* a prefix above 32 or below 0.
C30_CidrWellFormed ==
    (encoder = "build_field_values" /\ iocs[1].type \in {"IP", "CIDR_BLOCK"}) =>
        LET value == iocs[1].value
            cidr == output[1].cidr
        IN  /\ Cardinality({k \in 1..Len(cidr) : cidr[k] = "/"}) = 1
            /\ Split1(cidr, Slash)[2] \in PrefixLengths
            /\ (Contains(value, Slash) /\ Split1(value, Slash)[2] \in PrefixLengths) => cidr = value
            /\ cidr # value => (~Contains(value, Slash) /\ cidr = value \o <<"/", "3", "2">>)

====
